---------------------------- MODULE Spec2Model ----------------------------
(***************************************************************************)
(* Model of skills/code-review-security/scripts/security-scan.py: the      *)
(* ScanResults accumulator, the SecurityVisitor over a Python syntax tree, *)
(* the line-oriented regex scanners, the directory walk and main()'s       *)
(* report and exit code.                                                   *)
(*                                                                         *)
(* Text is modelled as sequences of one-character strings so that the      *)
(* regular expressions and os.path.splitext are computed character by      *)
(* character.  ast.parse and str.splitlines belong to the Python runtime:  *)
(* a source file is given as its sequence of physical lines, each line     *)
(* carrying its text and the statement the parser builds from it.          *)
(***************************************************************************)
EXTENDS Integers, Sequences, FiniteSets, TLC

(***************************************************************************)
(* Bounds of the model.                                                    *)
(***************************************************************************)
\* files of a walked directory
MaxFiles == 2
\* physical lines of a file
MaxLines == 2
\* findings put into a ScanResults directly
MaxFindings == 3

(***************************************************************************)
(* Characters.  Chars spells a string out as a sequence of characters.     *)
(***************************************************************************)
Chars(s) ==
  CASE s = "API_KEY" -> <<"A", "P", "I", "_", "K", "E", "Y">>
    [] s = "SECRET" -> <<"S", "E", "C", "R", "E", "T">>
    [] s = "PASSWORD" -> <<"P", "A", "S", "S", "W", "O", "R", "D">>
    [] s = "TOKEN" -> <<"T", "O", "K", "E", "N">>
    [] s = "PRIVATE_KEY" -> <<"P", "R", "I", "V", "A", "T", "E", "_", "K", "E", "Y">>
    [] s = "dangerouslySetInnerHTML" -> <<"d", "a", "n", "g", "e", "r", "o", "u", "s", "l", "y", "S", "e", "t", "I", "n", "n", "e", "r", "H", "T", "M", "L">>
    [] s = "javascript" -> <<"j", "a", "v", "a", "s", "c", "r", "i", "p", "t">>
    [] s = ".py" -> <<".", "p", "y">>
    [] s = ".js" -> <<".", "j", "s">>
    [] s = ".jsx" -> <<".", "j", "s", "x">>
    [] s = ".ts" -> <<".", "t", "s">>
    [] s = ".tsx" -> <<".", "t", "s", "x">>
    [] s = "HIGH" -> <<"H", "I", "G", "H">>
    [] s = "MEDIUM" -> <<"M", "E", "D", "I", "U", "M">>
    [] s = "LOW" -> <<"L", "O", "W">>
    [] s = "eval" -> <<"e", "v", "a", "l">>
    [] s = "exec" -> <<"e", "x", "e", "c">>
    [] s = "os" -> <<"o", "s">>
    [] s = "system" -> <<"s", "y", "s", "t", "e", "m">>
    [] s = "pickle" -> <<"p", "i", "c", "k", "l", "e">>
    [] s = "loads" -> <<"l", "o", "a", "d", "s">>
    [] s = "load" -> <<"l", "o", "a", "d">>
    [] s = "subprocess" -> <<"s", "u", "b", "p", "r", "o", "c", "e", "s", "s">>
    [] s = "call" -> <<"c", "a", "l", "l">>
    [] s = "run" -> <<"r", "u", "n">>
    [] s = "Popen" -> <<"P", "o", "p", "e", "n">>
    [] s = "text" -> <<"t", "e", "x", "t">>
    [] s = "sqlalchemy" -> <<"s", "q", "l", "a", "l", "c", "h", "e", "m", "y">>
    [] s = "evaluate" -> <<"e", "v", "a", "l", "u", "a", "t", "e">>
    [] s = "popen" -> <<"p", "o", "p", "e", "n">>
    [] s = "sa" -> <<"s", "a">>
    [] s = "shell" -> <<"s", "h", "e", "l", "l">>
    [] s = "check" -> <<"c", "h", "e", "c", "k">>
    [] s = "flag" -> <<"f", "l", "a", "g">>
    [] s = "opts" -> <<"o", "p", "t", "s">>
    [] s = "True" -> <<"T", "r", "u", "e">>
    [] s = "False" -> <<"F", "a", "l", "s", "e">>
    [] s = "abcd1234" -> <<"a", "b", "c", "d", "1", "2", "3", "4">>
    [] s = "def f(:" -> <<"d", "e", "f", " ", "f", "(", ":">>
    [] s = "SECRET = 'abcd\"" -> <<"S", "E", "C", "R", "E", "T", " ", "=", " ", "'", "a", "b", "c", "d", "\"">>
    [] s = "x = ((((1))))" -> <<"x", " ", "=", " ", "(", "(", "(", "(", "1", ")", ")", ")", ")">>
    [] s = "<a dangerouslySetInnerHTML href=\"javascript:x\">" -> <<"<", "a", " ", "d", "a", "n", "g", "e", "r", "o", "u", "s", "l", "y", "S", "e", "t", "I", "n", "n", "e", "r", "H", "T", "M", "L", " ", "h", "r", "e", "f", "=", "\"", "j", "a", "v", "a", "s", "c", "r", "i", "p", "t", ":", "x", "\"", ">">>
    [] s = "let x = 1" -> <<"l", "e", "t", " ", "x", " ", "=", " ", "1">>
    [] s = "d/s" -> <<"d", "/", "s">>
    [] s = "a.py" -> <<"a", ".", "p", "y">>
    [] s = "b.js" -> <<"b", ".", "j", "s">>
    [] s = "c.jsx" -> <<"c", ".", "j", "s", "x">>
    [] s = "a.test.ts" -> <<"a", ".", "t", "e", "s", "t", ".", "t", "s">>
    [] s = "f.tsx" -> <<"f", ".", "t", "s", "x">>
    [] s = "n.txt" -> <<"n", ".", "t", "x", "t">>
    [] s = "U.PY" -> <<"U", ".", "P", "Y">>
    [] s = "m.Js" -> <<"m", ".", "J", "s">>
    [] s = "metrics" -> <<"m", "e", "t", "r", "i", "c", "s">>
    [] s = "health" -> <<"h", "e", "a", "l", "t", "h">>
    [] s = "ready" -> <<"r", "e", "a", "d", "y">>
    [] s = "users" -> <<"u", "s", "e", "r", "s">>
    [] s = "{id}" -> <<"{", "i", "d", "}">>
    [] s = "{uuid}" -> <<"{", "u", "u", "i", "d", "}">>
    [] s = "noext" -> <<"n", "o", "e", "x", "t">>
    [] s = "password" -> <<"p", "a", "s", "s", "w", "o", "r", "d">>
    [] s = "KEY" -> <<"K", "E", "Y">>
    [] s = "TOKENS" -> <<"T", "O", "K", "E", "N", "S">>
    [] s = "MY_" -> <<"M", "Y", "_">>
    [] s = "abc" -> <<"a", "b", "c">>
    [] s = "abcd" -> <<"a", "b", "c", "d">>
    [] s = "it's ok" -> <<"i", "t", "'", "s", " ", "o", "k">>
    [] s = "ab\"cdef" -> <<"a", "b", "\"", "c", "d", "e", "f">>
    [] s = "dangerouslysetinnerhtml" -> <<"d", "a", "n", "g", "e", "r", "o", "u", "s", "l", "y", "s", "e", "t", "i", "n", "n", "e", "r", "h", "t", "m", "l">>
    [] s = "dangerouslySetInnerHTML dangerouslySetInnerHTML" -> <<"d", "a", "n", "g", "e", "r", "o", "u", "s", "l", "y", "S", "e", "t", "I", "n", "n", "e", "r", "H", "T", "M", "L", " ", "d", "a", "n", "g", "e", "r", "o", "u", "s", "l", "y", "S", "e", "t", "I", "n", "n", "e", "r", "H", "T", "M", "L">>
    [] s = "JavaScript" -> <<"J", "a", "v", "a", "S", "c", "r", "i", "p", "t">>
    [] s = "JAVASCRIPT" -> <<"J", "A", "V", "A", "S", "C", "R", "I", "P", "T">>
    [] s = "myjavascript" -> <<"m", "y", "j", "a", "v", "a", "s", "c", "r", "i", "p", "t">>
    [] s = "x>" -> <<"x", ">">>
    [] s = "x token=\"abcd\">" -> <<"x", " ", "t", "o", "k", "e", "n", "=", "\"", "a", "b", "c", "d", "\"", ">">>
    [] s = "<a " -> <<"<", "a", " ">>
    [] s = " href=" -> <<" ", "h", "r", "e", "f", "=">>
    [] s = "MY_API_KEY" -> <<"M", "Y", "_", "A", "P", "I", "_", "K", "E", "Y">>
    [] s = "MY_SECRET" -> <<"M", "Y", "_", "S", "E", "C", "R", "E", "T">>
    [] s = "def " -> <<"d", "e", "f", " ">>
    [] s = "(): " -> <<"(", ")", ":", " ">>
    [] s = "class " -> <<"c", "l", "a", "s", "s", " ">>
    [] s = ": " -> <<":", " ">>
    [] s = "lambda: " -> <<"l", "a", "m", "b", "d", "a", ":", " ">>
    [] s = " for " -> <<" ", "f", "o", "r", " ">>
    [] s = " in " -> <<" ", "i", "n", " ">>
    [] s = " if " -> <<" ", "i", "f", " ">>
    [] s = "MYTOKEN" -> <<"M", "Y", "T", "O", "K", "E", "N">>
    [] s = "XPASSWORD" -> <<"X", "P", "A", "S", "S", "W", "O", "R", "D">>
    [] s = "mytoken" -> <<"m", "y", "t", "o", "k", "e", "n">>
    [] s = "AUTHTOKEN" -> <<"A", "U", "T", "H", "T", "O", "K", "E", "N">>
    [] s = "INFO" -> <<"I", "N", "F", "O">>
    [] s = "" -> <<>>
    \* a single character
    [] OTHER -> <<s>>

LowerLetters ==
  <<"a", "b", "c", "d", "e", "f", "g", "h", "i", "j", "k", "l", "m",
    "n", "o", "p", "q", "r", "s", "t", "u", "v", "w", "x", "y", "z">>

UpperLetters ==
  <<"A", "B", "C", "D", "E", "F", "G", "H", "I", "J", "K", "L", "M",
    "N", "O", "P", "Q", "R", "S", "T", "U", "V", "W", "X", "Y", "Z">>

\* str.lower on the ASCII letters
LowerOf == [c \in {UpperLetters[i] : i \in 1..26} |->
              LowerLetters[CHOOSE i \in 1..26 : UpperLetters[i] = c]]

\* re.IGNORECASE compares characters after case folding
Fold(c) == IF c \in DOMAIN LowerOf THEN LowerOf[c] ELSE c

\* the regex class \s
IsSpace(c) == c \in {" ", "\t"}

\* the regex class ["']
IsQuote(c) == c \in {"\"", "'"}

RECURSIVE Flatten(_)
Flatten(ss) == IF ss = <<>> THEN <<>> ELSE Head(ss) \o Flatten(Tail(ss))

RECURSIVE JoinSeqs(_, _)
JoinSeqs(ss, sep) ==
  IF ss = <<>> THEN <<>>
  ELSE IF Len(ss) = 1 THEN ss[1]
  ELSE ss[1] \o sep \o JoinSeqs(Tail(ss), sep)

(***************************************************************************)
(* Data model: Finding and ScanResults.                                    *)
(***************************************************************************)
Finding(file, line, severity, description) ==
  [file |-> file, line |-> line, severity |-> severity,
   description |-> description]

\* ScanResults.add: append one Finding
Add(results, file, line, severity, description) ==
  Append(results, Finding(file, line, severity, description))

\* a faulty count: counts[f.severity] = 1 instead of an increment
CountSeverity_Presence(fs, sev) ==
  IF \E i \in DOMAIN fs : fs[i].severity = sev THEN 1 ELSE 0

RECURSIVE CountSeverity(_, _)
CountSeverity(fs, sev) ==
  IF fs = <<>> THEN 0
  ELSE (IF Head(fs).severity = sev THEN 1 ELSE 0) + CountSeverity(Tail(fs), sev)

\* ScanResults.summary: the three keys are always present, and any other
\* severity found in the findings gets a key of its own
Summary(fs) ==
  [sev \in {"HIGH", "MEDIUM", "LOW"} \cup {fs[i].severity : i \in DOMAIN fs} |->
     CountSeverity(fs, sev)]

RECURSIVE SumOver(_, _)
\* the sum of the values of counts at the keys in keys
SumOver(counts, keys) ==
  IF keys = {} THEN 0
  ELSE LET k == CHOOSE k \in keys : TRUE
       IN counts[k] + SumOver(counts, keys \ {k})

\* sum(summary.values())
SumValues(counts) == SumOver(counts, DOMAIN counts)

(***************************************************************************)
(* Syntax trees.  Only the node kinds the visitor can tell apart are       *)
(* modelled; every other expression kind is a leaf the visitor walks past. *)
(***************************************************************************)
Name(id) == [kind |-> "Name", id |-> id]
Attribute(value, attr) == [kind |-> "Attribute", value |-> value, attr |-> attr]
\* a constant: its Python type and its literal
Constant(t, v) == [kind |-> "Constant", value |-> [t |-> t, v |-> v]]
FormattedValue(value) == [kind |-> "FormattedValue", value |-> value]
JoinedStr(values) == [kind |-> "JoinedStr", values |-> values]
Keyword(arg, value) == [kind |-> "keyword", arg |-> arg, value |-> value]
Call(func, args, keywords) ==
  [kind |-> "Call", func |-> func, args |-> args, keywords |-> keywords,
   lineno |-> 0]
Expr(value) == [kind |-> "Expr", value |-> value]
Assign(target, value) == [kind |-> "Assign", targets |-> <<target>>, value |-> value]
Module(body) == [kind |-> "Module", body |-> body]
FunctionDef(name, body) == [kind |-> "FunctionDef", name |-> name, body |-> body]
ClassDef(name, body) == [kind |-> "ClassDef", name |-> name, body |-> body]
Lambda(body) == [kind |-> "Lambda", body |-> body]
Comprehension(target, iter, ifs) ==
  [kind |-> "comprehension", target |-> target, iter |-> iter, ifs |-> ifs]
ListComp(elt, generators) ==
  [kind |-> "ListComp", elt |-> elt, generators |-> generators]
Subscript(value, slice) == [kind |-> "Subscript", value |-> value, slice |-> slice]

\* keyword.arg of a **mapping argument
NoneArg == "<None>"
PyTrue == [t |-> "bool", v |-> "True"]

\* iter_child_nodes: the child nodes of a node, in field order
Children(node) ==
  CASE node.kind = "Module" -> node.body
    [] node.kind = "Expr" -> <<node.value>>
    [] node.kind = "Assign" -> node.targets \o <<node.value>>
    [] node.kind = "Call" -> <<node.func>> \o node.args \o node.keywords
    [] node.kind = "keyword" -> <<node.value>>
    [] node.kind = "Attribute" -> <<node.value>>
    [] node.kind = "JoinedStr" -> node.values
    [] node.kind = "FormattedValue" -> <<node.value>>
    [] node.kind \in {"FunctionDef", "ClassDef"} -> node.body
    [] node.kind = "Lambda" -> <<node.body>>
    [] node.kind = "ListComp" -> <<node.elt>> \o node.generators
    [] node.kind = "comprehension" -> <<node.target, node.iter>> \o node.ifs
    [] node.kind = "Subscript" -> <<node.value, node.slice>>
    [] OTHER -> <<>>

(***************************************************************************)
(* SecurityVisitor.                                                        *)
(***************************************************************************)
DANGEROUS_CALLS ==
  [n \in {"eval", "exec", "os.system", "pickle.loads", "pickle.load"} |->
     CASE n = "eval" -> <<"HIGH", "Use of eval() can execute arbitrary code">>
       [] n = "exec" -> <<"HIGH", "Use of exec() can execute arbitrary code">>
       [] n = "os.system" -> <<"HIGH", "os.system() is vulnerable to shell injection">>
       [] n = "pickle.loads" -> <<"HIGH", "pickle.loads() can deserialize malicious objects">>
       [] n = "pickle.load" -> <<"HIGH", "pickle.load() can deserialize malicious objects">>]

\* a faulty name test of rule 2: text is taken for a subprocess function
SHELL_CALLS_WithText == {"subprocess.call", "subprocess.run", "subprocess.Popen", "text"}
SHELL_CALLS == {"subprocess.call", "subprocess.run", "subprocess.Popen"}

RECURSIVE AttrParts(_)
\* the while loop of _resolve_name: attribute names, outermost first
AttrParts(node) ==
  IF node.kind = "Attribute" THEN <<node.attr>> \o AttrParts(node.value)
  ELSE IF node.kind = "Name" THEN <<node.id>>
  ELSE <<>>

RECURSIVE Reversed(_)
Reversed(s) == IF s = <<>> THEN <<>> ELSE Append(Reversed(Tail(s)), Head(s))

RECURSIVE JoinDots(_)
JoinDots(parts) ==
  IF parts = <<>> THEN ""
  ELSE IF Len(parts) = 1 THEN parts[1]
  ELSE parts[1] \o "." \o JoinDots(Tail(parts))

\* a faulty _resolve_name: the parts joined without reversed()
ResolveName_Unreversed(node) ==
  IF node.kind = "Name" THEN node.id
  ELSE IF node.kind = "Attribute" THEN JoinDots(AttrParts(node))
  ELSE ""

\* a faulty _resolve_name: the last attribute only, without the dotted prefix
ResolveName_LastAttr(node) ==
  IF node.kind = "Name" THEN node.id
  ELSE IF node.kind = "Attribute" THEN node.attr
  ELSE ""

\* SecurityVisitor._resolve_name
ResolveName(node) ==
  IF node.kind = "Name" THEN node.id
  ELSE IF node.kind = "Attribute" THEN JoinDots(Reversed(AttrParts(node)))
  ELSE ""

\* rule 1: exact match against DANGEROUS_CALLS
DangerousCallRule(node, name, filepath) ==
  IF name \in DOMAIN DANGEROUS_CALLS
    THEN <<Finding(filepath, node.lineno, DANGEROUS_CALLS[name][1],
                   DANGEROUS_CALLS[name][2])>>
    ELSE <<>>

\* a faulty shell test: kw.value.value == True, which the integer 1 passes too
IsShellTrue_Truthy(kw) ==
  /\ kw.arg = "shell"
  /\ kw.value.kind = "Constant"
  /\ kw.value.value \in {PyTrue, [t |-> "int", v |-> "1"]}

\* kw.arg == "shell" and isinstance(kw.value, ast.Constant) and kw.value.value is True
IsShellTrue(kw) ==
  /\ kw.arg = "shell"
  /\ kw.value.kind = "Constant"
  /\ kw.value.value = PyTrue

RECURSIVE ShellKeywordFindings(_, _, _, _)
\* the loop over node.keywords
ShellKeywordFindings(kws, node, name, filepath) ==
  IF kws = <<>> THEN <<>>
  ELSE (IF IsShellTrue(Head(kws))
          THEN <<Finding(filepath, node.lineno, "HIGH",
                   name \o "() called with shell=True -- risk of shell injection")>>
          ELSE <<>>)
       \o ShellKeywordFindings(Tail(kws), node, name, filepath)

\* rule 2: subprocess with shell=True
ShellRule(node, name, filepath) ==
  IF name \in SHELL_CALLS
    THEN ShellKeywordFindings(node.keywords, node, name, filepath)
    ELSE <<>>

\* a faulty rule 3: an f-string at any positional argument
SqlTextRule_AnyArg(node, name, filepath) ==
  IF (name = "text" \/ name = "sqlalchemy.text")
     /\ \E k \in DOMAIN node.args : node.args[k].kind = "JoinedStr"
    THEN <<Finding(filepath, node.lineno, "HIGH",
             "SQL text() with f-string -- use bind parameters instead")>>
    ELSE <<>>

\* rule 3: SQLAlchemy text() with an f-string as first positional argument
SqlTextRule(node, name, filepath) ==
  IF (name = "text" \/ name = "sqlalchemy.text")
     /\ node.args # <<>> /\ node.args[1].kind = "JoinedStr"
    THEN <<Finding(filepath, node.lineno, "HIGH",
             "SQL text() with f-string -- use bind parameters instead")>>
    ELSE <<>>

RECURSIVE Visit(_, _)
RECURSIVE VisitAll(_, _)
\* NodeVisitor.generic_visit: visit every child node in order
VisitAll(nodes, filepath) ==
  IF nodes = <<>> THEN <<>>
  ELSE Visit(Head(nodes), filepath) \o VisitAll(Tail(nodes), filepath)

GenericVisit(node, filepath) == VisitAll(Children(node), filepath)

\* a faulty visit_Call: self.generic_visit(node) is missing
VisitCall_NoGenericVisit(node, filepath) ==
  LET name == ResolveName(node.func)
  IN <<[filepath |-> filepath, node |-> node, name |-> name,
        added |-> DangerousCallRule(node, name, filepath)
                    \o ShellRule(node, name, filepath)
                    \o SqlTextRule(node, name, filepath)]>>

\* a faulty visit_Call: self.generic_visit(node) comes first, the rules after it
VisitCall_ChildrenFirst(node, filepath) ==
  LET name == ResolveName(node.func)
  IN GenericVisit(node, filepath)
     \o <<[filepath |-> filepath, node |-> node, name |-> name,
            added |-> DangerousCallRule(node, name, filepath)
                        \o ShellRule(node, name, filepath)
                        \o SqlTextRule(node, name, filepath)]>>

\* SecurityVisitor.visit_Call: this invocation (the node, the name resolved for
\* it, the findings its rules add), then the invocations for its subtree
VisitCall(node, filepath) ==
  LET name == ResolveName(node.func)
  IN <<[filepath |-> filepath, node |-> node, name |-> name,
        added |-> DangerousCallRule(node, name, filepath)
                    \o ShellRule(node, name, filepath)
                    \o SqlTextRule(node, name, filepath)]>>
     \o GenericVisit(node, filepath)

\* NodeVisitor.visit: dispatch on the node's class; the visit_Call invocations
\* made for the subtree of node, in the order they are made
Visit(node, filepath) ==
  IF node.kind = "Call" THEN VisitCall(node, filepath)
  ELSE GenericVisit(node, filepath)

\* the findings a sequence of visit_Call invocations appends to the results
AddedBy(calls) == Flatten([k \in DOMAIN calls |-> calls[k].added])

(***************************************************************************)
(* Regex-based scanners.                                                   *)
(***************************************************************************)
MinSecretLen == 4

SECRET_KEYWORDS ==
  {Chars("API_KEY"), Chars("SECRET"), Chars("PASSWORD"), Chars("TOKEN"),
   Chars("PRIVATE_KEY")}

\* the literal lit stands in line at position i (case-sensitive)
LiteralAt(lit, line, i) ==
  /\ i + Len(lit) - 1 <= Len(line)
  /\ \A j \in 1..Len(lit) : line[i + j - 1] = lit[j]

\* the same under re.IGNORECASE
LiteralAtFold(lit, line, i) ==
  /\ i + Len(lit) - 1 <= Len(line)
  /\ \A j \in 1..Len(lit) : Fold(line[i + j - 1]) = Fold(lit[j])

RECURSIVE SkipSpaces(_, _)
\* \s* from position i: the position after the run of whitespace
SkipSpaces(line, i) ==
  IF i <= Len(line) /\ IsSpace(line[i]) THEN SkipSpaces(line, i + 1) ELSE i

RECURSIVE SkipNonQuotes(_, _)
\* [^"']* from position i: the position after the run of non-quote characters
SkipNonQuotes(line, i) ==
  IF i <= Len(line) /\ ~IsQuote(line[i]) THEN SkipNonQuotes(line, i + 1) ELSE i

\* a faulty secret pattern: compiled without re.IGNORECASE
SecretMatchAt_CaseSensitive(kw, line, i) ==
  LET a == SkipSpaces(line, i + Len(kw))
      b == SkipSpaces(line, a + 1)
      e == SkipNonQuotes(line, b + 1)
  IN /\ LiteralAt(kw, line, i)
     /\ a <= Len(line) /\ line[a] = "="
     /\ b <= Len(line) /\ IsQuote(line[b])
     /\ e - (b + 1) >= MinSecretLen
     /\ e <= Len(line) /\ IsQuote(line[e])

\* keyword \s* = \s* ["'] [^"']{4,} ["'] matched with the keyword at position i
SecretMatchAt(kw, line, i) ==
  LET a == SkipSpaces(line, i + Len(kw))
      b == SkipSpaces(line, a + 1)
      e == SkipNonQuotes(line, b + 1)
  IN /\ LiteralAtFold(kw, line, i)
     /\ a <= Len(line) /\ line[a] = "="
     /\ b <= Len(line) /\ IsQuote(line[b])
     /\ e - (b + 1) >= MinSecretLen
     /\ e <= Len(line) /\ IsQuote(line[e])

\* HARDCODED_SECRET_RE.search(line)
HARDCODED_SECRET_RE(line) ==
  \E i \in 1..Len(line) : \E kw \in SECRET_KEYWORDS : SecretMatchAt(kw, line, i)

\* a pattern is a literal, optionally followed by \s* and one character
JS_DANGEROUS_PATTERNS ==
  << [literal |-> Chars("dangerouslySetInnerHTML"), then |-> "",
      severity |-> "MEDIUM",
      description |-> "dangerouslySetInnerHTML can lead to XSS"],
     [literal |-> Chars("javascript"), then |-> ":",
      severity |-> "HIGH",
      description |-> "javascript: URL is an XSS vector"] >>

\* a faulty pattern: compiled with re.IGNORECASE
PatternSearch_IgnoreCase(p, line) ==
  \E i \in 1..Len(line) :
    /\ LiteralAtFold(p.literal, line, i)
    /\ \/ p.then = ""
       \/ LET a == SkipSpaces(line, i + Len(p.literal))
          IN a <= Len(line) /\ line[a] = p.then

\* pattern.search(line)
PatternSearch(p, line) ==
  \E i \in 1..Len(line) :
    /\ LiteralAt(p.literal, line, i)
    /\ \/ p.then = ""
       \/ LET a == SkipSpaces(line, i + Len(p.literal))
          IN a <= Len(line) /\ line[a] = p.then

SECRET_DESCRIPTION == "Possible hardcoded secret detected"

\* the statement of one physical line, its Call nodes numbered with the line
RECURSIVE Locate(_, _)
Locate(node, n) ==
  LET all(ns) == [i \in DOMAIN ns |-> Locate(ns[i], n)]
  IN CASE node.kind = "Call" ->
            [node EXCEPT !.lineno = n, !.func = Locate(node.func, n),
                         !.args = all(node.args),
                         !.keywords = all(node.keywords)]
       [] node.kind \in {"Expr", "keyword", "Attribute", "FormattedValue"} ->
            [node EXCEPT !.value = Locate(node.value, n)]
       [] node.kind = "Assign" ->
            [node EXCEPT !.value = Locate(node.value, n)]
       [] node.kind = "JoinedStr" -> [node EXCEPT !.values = all(node.values)]
       [] node.kind \in {"FunctionDef", "ClassDef"} ->
            [node EXCEPT !.body = all(node.body)]
       [] node.kind = "Lambda" -> [node EXCEPT !.body = Locate(node.body, n)]
       [] node.kind = "ListComp" ->
            [node EXCEPT !.elt = Locate(node.elt, n),
                         !.generators = all(node.generators)]
       [] node.kind = "comprehension" ->
            [node EXCEPT !.iter = Locate(node.iter, n), !.ifs = all(node.ifs)]
       [] node.kind = "Subscript" ->
            [node EXCEPT !.value = Locate(node.value, n),
                         !.slice = Locate(node.slice, n)]
       [] OTHER -> node

\* what ast.parse raises instead of returning a tree
ParseErrors == {"SyntaxError", "RecursionError"}

\* ast.parse(source): the Module of the lines' statements, or the exception
\* the first line that does not parse raises
Parse(src) ==
  IF \E i \in DOMAIN src : src[i].stmt.kind \in ParseErrors
    THEN [raised |-> src[CHOOSE i \in DOMAIN src :
                           /\ src[i].stmt.kind \in ParseErrors
                           /\ \A j \in 1..(i - 1) : src[j].stmt.kind \notin ParseErrors
                        ].stmt.kind]
    ELSE [raised |-> "",
          tree |-> Module([i \in DOMAIN src |-> Locate(src[i].stmt, i)])]

RECURSIVE SecretFindings_ZeroBased(_, _, _)
\* a faulty line loop: enumerate(source.splitlines()) counts from 0
SecretFindings_ZeroBased(src, n, filepath) ==
  IF n > Len(src) THEN <<>>
  ELSE (IF HARDCODED_SECRET_RE(src[n].text)
          THEN <<Finding(filepath, n - 1, "MEDIUM", SECRET_DESCRIPTION)>>
          ELSE <<>>)
       \o SecretFindings_ZeroBased(src, n + 1, filepath)

RECURSIVE SecretFindings(_, _, _)
\* the loop over enumerate(source.splitlines(), start=1), from line number n
SecretFindings(src, n, filepath) ==
  IF n > Len(src) THEN <<>>
  ELSE (IF HARDCODED_SECRET_RE(src[n].text)
          THEN <<Finding(filepath, n, "MEDIUM", SECRET_DESCRIPTION)>>
          ELSE <<>>)
       \o SecretFindings(src, n + 1, filepath)

\* a faulty pattern loop: it leaves the loop at the first pattern that matches
PatternFindings_FirstMatchOnly(line, n, filepath) ==
  LET hits == Flatten([k \in DOMAIN JS_DANGEROUS_PATTERNS |->
                         IF PatternSearch(JS_DANGEROUS_PATTERNS[k], line)
                           THEN <<Finding(filepath, n, JS_DANGEROUS_PATTERNS[k].severity,
                                          JS_DANGEROUS_PATTERNS[k].description)>>
                           ELSE <<>>])
  IN IF hits = <<>> THEN <<>> ELSE <<hits[1]>>

\* a faulty pattern loop: pattern.finditer(line), one finding for every match
PatternFindings_PerOccurrence(line, n, filepath) ==
  Flatten([k \in DOMAIN JS_DANGEROUS_PATTERNS |->
             LET p == JS_DANGEROUS_PATTERNS[k]
                 starts == {i \in 1..Len(line) :
                              /\ LiteralAt(p.literal, line, i)
                              /\ \/ p.then = ""
                                 \/ LET a == SkipSpaces(line, i + Len(p.literal))
                                    IN a <= Len(line) /\ line[a] = p.then}
             IN [j \in 1..Cardinality(starts) |->
                   Finding(filepath, n, p.severity, p.description)]])

\* the JS_DANGEROUS_PATTERNS loop on one line
PatternFindings(line, n, filepath) ==
  Flatten([k \in DOMAIN JS_DANGEROUS_PATTERNS |->
             IF PatternSearch(JS_DANGEROUS_PATTERNS[k], line)
               THEN <<Finding(filepath, n, JS_DANGEROUS_PATTERNS[k].severity,
                              JS_DANGEROUS_PATTERNS[k].description)>>
               ELSE <<>>])

RECURSIVE JsLineFindings(_, _, _)
\* the loop over the lines of a JS/TS file, from line number n
JsLineFindings(src, n, filepath) ==
  IF n > Len(src) THEN <<>>
  ELSE PatternFindings(src[n].text, n, filepath)
       \o (IF HARDCODED_SECRET_RE(src[n].text)
             THEN <<Finding(filepath, n, "MEDIUM", SECRET_DESCRIPTION)>>
             ELSE <<>>)
       \o JsLineFindings(src, n + 1, filepath)

\* Path(filepath).read_text(encoding="utf-8"): the lines read, or the exception
ReadText(file) ==
  IF file.read = "ok" THEN [raised |-> "", source |-> file.src]
  ELSE [raised |-> file.read, source |-> <<>>]

\* a faulty handler: except OSError only
CaughtReadErrors_OnlyOSError == {"OSError"}

\* except (OSError, UnicodeDecodeError)
CaughtReadErrors == {"OSError", "UnicodeDecodeError"}

\* the AST checks of scan_python_file: findings added, exception left uncaught
AstChecks(source, filepath) ==
  LET parsed == Parse(source)
  IN IF parsed.raised = ""
       THEN [added |-> AddedBy(Visit(parsed.tree, filepath)), raised |-> "",
             calls |-> Visit(parsed.tree, filepath)]
     ELSE IF parsed.raised = "SyntaxError"
       THEN [added |-> <<>>, raised |-> "", calls |-> <<>>]
     ELSE [added |-> <<>>, raised |-> parsed.raised, calls |-> <<>>]

\* a faulty scan_python_file: it returns from the SyntaxError handler
ScanPythonFile_SkipUnparsed(file, filepath) ==
  LET read == ReadText(file)
      ast == AstChecks(read.source, filepath)
  IN IF read.raised \in CaughtReadErrors
       THEN [added |-> <<>>, raised |-> "", calls |-> <<>>]
     ELSE IF read.raised # ""
       THEN [added |-> <<>>, raised |-> read.raised, calls |-> <<>>]
     ELSE IF ast.raised # "" THEN ast
     ELSE IF Parse(read.source).raised = "SyntaxError"
       THEN [added |-> <<>>, raised |-> "", calls |-> <<>>]
     ELSE [added |-> ast.added \o SecretFindings(read.source, 1, filepath),
           raised |-> "", calls |-> ast.calls]

\* scan_python_file: the findings it appends and the exception it lets through
ScanPythonFile(file, filepath) ==
  LET read == ReadText(file)
      ast == AstChecks(read.source, filepath)
  IN IF read.raised \in CaughtReadErrors
       THEN [added |-> <<>>, raised |-> "", calls |-> <<>>]
     ELSE IF read.raised # ""
       THEN [added |-> <<>>, raised |-> read.raised, calls |-> <<>>]
     ELSE IF ast.raised # "" THEN ast
     ELSE [added |-> ast.added \o SecretFindings(read.source, 1, filepath),
           raised |-> "", calls |-> ast.calls]

\* scan_js_ts_file
ScanJsTsFile(file, filepath) ==
  LET read == ReadText(file)
  IN IF read.raised \in CaughtReadErrors
       THEN [added |-> <<>>, raised |-> "", calls |-> <<>>]
     ELSE IF read.raised # ""
       THEN [added |-> <<>>, raised |-> read.raised, calls |-> <<>>]
     ELSE [added |-> JsLineFindings(read.source, 1, filepath), raised |-> "",
           calls |-> <<>>]

(***************************************************************************)
(* Directory walker.                                                       *)
(***************************************************************************)
PYTHON_EXTENSIONS == {Chars(".py")}
\* a faulty extension set: .tsx left out
JS_TS_EXTENSIONS_NoTsx == {Chars(".js"), Chars(".jsx"), Chars(".ts")}
JS_TS_EXTENSIONS == {Chars(".js"), Chars(".jsx"), Chars(".ts"), Chars(".tsx")}

\* the index of the last "." of p, 0 when there is none
LastDot(p) ==
  IF \E i \in 1..Len(p) : p[i] = "."
    THEN CHOOSE i \in 1..Len(p) : p[i] = "." /\ \A j \in (i + 1)..Len(p) : p[j] # "."
    ELSE 0

\* os.path.splitext(fname)[1]: the suffix from the last dot, unless only dots
\* precede it
Splitext(fname) ==
  LET d == LastDot(fname)
  IN IF d > 0 /\ \E k \in 1..(d - 1) : fname[k] # "."
       THEN SubSeq(fname, d, Len(fname))
       ELSE <<>>

\* os.path.join(root, fname)
PathJoin(root, fname) ==
  IF root # <<>> /\ root[Len(root)] = "/" THEN root \o fname
  ELSE root \o <<"/">> \o fname

\* a faulty routing: the extension is compared without regard to case
ScannerFor_IgnoreCase(fname) ==
  LET ext == [k \in DOMAIN Splitext(fname) |-> Fold(Splitext(fname)[k])]
  IN IF ext \in PYTHON_EXTENSIONS THEN "python"
     ELSE IF ext \in JS_TS_EXTENSIONS THEN "js_ts"
     ELSE "none"

\* the scanner scan_directory calls for a file name
ScannerFor(fname) ==
  LET ext == Splitext(fname)
  IN IF ext \in PYTHON_EXTENSIONS THEN "python"
     ELSE IF ext \in JS_TS_EXTENSIONS THEN "js_ts"
     ELSE "none"

(***************************************************************************)
(* Reporter: sorted(results.findings, key=(severity, file, line)).         *)
(***************************************************************************)
\* the printable ASCII characters in code point order: 32 to 95, 97 to 126
AsciiLow ==
  <<" ", "!", "\"", "#", "$", "%", "&", "'", "(", ")", "*", "+", ",", "-",
    ".", "/", "0", "1", "2", "3", "4", "5", "6", "7", "8", "9", ":", ";",
    "<", "=", ">", "?", "@", "A", "B", "C", "D", "E", "F", "G", "H", "I",
    "J", "K", "L", "M", "N", "O", "P", "Q", "R", "S", "T", "U", "V", "W",
    "X", "Y", "Z", "[", "\\", "]", "^", "_">>

AsciiHigh ==
  <<"a", "b", "c", "d", "e", "f", "g", "h", "i", "j", "k", "l", "m", "n",
    "o", "p", "q", "r", "s", "t", "u", "v", "w", "x", "y", "z", "{", "|",
    "}", "~">>

\* ord(c)
Ord(c) ==
  IF c = "\t" THEN 9
  ELSE IF \E i \in DOMAIN AsciiLow : AsciiLow[i] = c
    THEN 31 + (CHOOSE i \in DOMAIN AsciiLow : AsciiLow[i] = c)
  ELSE 96 + (CHOOSE i \in DOMAIN AsciiHigh : AsciiHigh[i] = c)

RECURSIVE StrLess(_, _)
\* a < b for Python strings
StrLess(a, b) ==
  IF b = <<>> THEN FALSE
  ELSE IF a = <<>> THEN TRUE
  ELSE IF Head(a) = Head(b) THEN StrLess(Tail(a), Tail(b))
  ELSE Ord(Head(a)) < Ord(Head(b))

\* a faulty sort key: the severity by its level (HIGH, MEDIUM, LOW), not as text
KeyLess_BySeverityLevel(f, g) ==
  LET level(sev) == CASE sev = "HIGH" -> 0 [] sev = "MEDIUM" -> 1
                      [] sev = "LOW" -> 2 [] OTHER -> 3
  IN \/ level(f.severity) < level(g.severity)
     \/ f.severity = g.severity /\ StrLess(f.file, g.file)
     \/ f.severity = g.severity /\ f.file = g.file /\ f.line < g.line

\* a faulty sort key: (f.severity, f.line), the file left out
KeyLess_NoFile(f, g) ==
  LET fs == Chars(f.severity)
      gs == Chars(g.severity)
  IN \/ StrLess(fs, gs)
     \/ fs = gs /\ f.line < g.line

\* the sort key (f.severity, f.file, f.line) of f is less than that of g
KeyLess(f, g) ==
  LET fs == Chars(f.severity)
      gs == Chars(g.severity)
  IN \/ StrLess(fs, gs)
     \/ fs = gs /\ StrLess(f.file, g.file)
     \/ fs = gs /\ f.file = g.file /\ f.line < g.line

RECURSIVE InsertSorted(_, _)
\* x placed behind every element whose key is not greater (stable)
InsertSorted(sorted, x) ==
  IF sorted = <<>> THEN <<x>>
  ELSE IF KeyLess(x, Head(sorted)) THEN <<x>> \o sorted
  ELSE <<Head(sorted)>> \o InsertSorted(Tail(sorted), x)

RECURSIVE Sorted(_)
\* sorted(findings, key=...)
Sorted(fs) ==
  IF fs = <<>> THEN <<>>
  ELSE InsertSorted(Sorted(SubSeq(fs, 1, Len(fs) - 1)), fs[Len(fs)])

(***************************************************************************)
(* Inputs: source lines, files and directory trees.                        *)
(***************************************************************************)
RECURSIVE Unparse(_)
\* the source text of a node
Unparse(node) ==
  LET each(ns) == [i \in DOMAIN ns |-> Unparse(ns[i])]
  IN CASE node.kind = "Name" -> Chars(node.id)
       [] node.kind = "Attribute" ->
            Unparse(node.value) \o <<".">> \o Chars(node.attr)
       [] node.kind = "Constant" ->
            IF node.value.t = "str"
              THEN <<"\"">> \o Chars(node.value.v) \o <<"\"">>
              ELSE Chars(node.value.v)
       [] node.kind = "FormattedValue" ->
            <<"{">> \o Unparse(node.value) \o <<"}">>
       [] node.kind = "JoinedStr" ->
            <<"f", "\"">> \o Flatten(each(node.values)) \o <<"\"">>
       [] node.kind = "keyword" ->
            IF node.arg = NoneArg THEN <<"*", "*">> \o Unparse(node.value)
            ELSE Chars(node.arg) \o <<"=">> \o Unparse(node.value)
       [] node.kind = "Call" ->
            Unparse(node.func) \o <<"(">>
              \o JoinSeqs(each(node.args \o node.keywords), <<",", " ">>)
              \o <<")">>
       [] node.kind = "Expr" -> Unparse(node.value)
       [] node.kind = "FunctionDef" ->
            Chars("def ") \o Chars(node.name) \o Chars("(): ")
              \o JoinSeqs(each(node.body), <<";", " ">>)
       [] node.kind = "ClassDef" ->
            Chars("class ") \o Chars(node.name) \o Chars(": ")
              \o JoinSeqs(each(node.body), <<";", " ">>)
       [] node.kind = "Lambda" -> Chars("lambda: ") \o Unparse(node.body)
       [] node.kind = "comprehension" ->
            Chars(" for ") \o Unparse(node.target) \o Chars(" in ")
              \o Unparse(node.iter)
              \o Flatten([i \in DOMAIN node.ifs |->
                            Chars(" if ") \o Unparse(node.ifs[i])])
       [] node.kind = "ListComp" ->
            <<"[">> \o Unparse(node.elt) \o Flatten(each(node.generators)) \o <<"]">>
       [] node.kind = "Subscript" ->
            Unparse(node.value) \o <<"[">> \o Unparse(node.slice) \o <<"]">>
       [] node.kind = "Assign" ->
            Unparse(node.targets[1]) \o <<" ", "=", " ">> \o Unparse(node.value)

\* a physical line: its text and the statement the parser builds from it
SourceLine(stmt) == [text |-> Unparse(stmt), stmt |-> stmt]
RawLine(text, stmt) == [text |-> text, stmt |-> stmt]

\* a line the parser rejects
NoParse == [kind |-> "SyntaxError"]
\* a line nested too deeply for the parser (the nesting itself is not spelled out)
TooDeep == [kind |-> "RecursionError"]

EvalLine == SourceLine(Expr(Call(Name("eval"), <<Name("x")>>, <<>>)))
SecretAssignLine == SourceLine(Assign(Name("API_KEY"), Constant("str", "abcd1234")))
PlainLine == SourceLine(Assign(Name("x"), Constant("int", "1")))
BrokenLine == RawLine(Chars("def f(:"), NoParse)
BrokenSecretLine == RawLine(Chars("SECRET = 'abcd\""), NoParse)
DeepLine == RawLine(Chars("x = ((((1))))"), TooDeep)
MarkupLine ==
  RawLine(Chars("<a dangerouslySetInnerHTML href=\"javascript:x\">"), NoParse)
LetLine == RawLine(Chars("let x = 1"), NoParse)
MarkupSecretLine ==
  RawLine(Chars("<a dangerouslySetInnerHTML href=\"javascript:x\">")
            \o <<" ">> \o Chars("x token=\"abcd\">"),
          NoParse)

\* every sequence over S of length at most n
SeqsUpTo(S, n) == UNION {[1..k -> S] : k \in 0..n}

File(entry, read, src) ==
  [root |-> entry.root, fname |-> entry.fname, read |-> read, src |-> src]

Entry(root, fname) == [root |-> Chars(root), fname |-> Chars(fname)]
EntryOf(file) == [root |-> file.root, fname |-> file.fname]

PyEntries == {Entry("d", "a.py"), Entry("d/s", "a.py")}
JsEntries ==
  {Entry("d", "b.js"), Entry("d", "c.jsx"), Entry("d", "a.test.ts"),
   Entry("d/s", "f.tsx")}
OtherEntries ==
  {Entry("d", "n.txt"), Entry("d", "U.PY"), Entry("d", ".py"),
   Entry("d", "noext")}

\* names a JS/TS extension would match if case or a leading dot were ignored
OtherJsEntries == {Entry("d", "m.Js"), Entry("d", ".ts")}

ReadErrors == {"OSError", "UnicodeDecodeError"}

\* lines of the files of a walked tree
PyWalkLines ==
  {EvalLine, SecretAssignLine, PlainLine, BrokenLine, BrokenSecretLine, DeepLine}
JsWalkLines == {MarkupLine, SecretAssignLine, LetLine}

\* the files of a walked tree: one line, no line, or text that cannot be read;
\* d/a.py and d/b.js come with every content, the other entries with one or two
WalkFiles ==
  {File(Entry("d", "a.py"), "ok", s) : s \in SeqsUpTo(PyWalkLines, 1)}
  \cup {File(Entry("d", "b.js"), "ok", s) : s \in SeqsUpTo(JsWalkLines, 1)}
  \cup {File(e, r, <<>>) : e \in {Entry("d", "a.py"), Entry("d", "b.js")},
                           r \in ReadErrors}
  \cup {File(Entry("d/s", "a.py"), "ok", <<l>>) : l \in {EvalLine, SecretAssignLine}}
  \cup {File(e, "ok", <<MarkupLine>>) : e \in JsEntries \ {Entry("d", "b.js")}}
  \cup {File(Entry("d", "c.jsx"), "ok", <<MarkupSecretLine>>)}
  \cup {File(e, "ok", <<EvalLine>>) : e \in OtherEntries}
  \cup {File(e, "ok", <<MarkupLine>>) : e \in OtherJsEntries}

RECURSIVE Walks(_, _)
\* the walks of at most n files, no entry twice
Walks(n, used) ==
  {<<>>} \cup
  (IF n = 0 THEN {}
   ELSE UNION { {<<f>> \o w : w \in Walks(n - 1, used \cup {EntryOf(f)})}
                : f \in {g \in WalkFiles : EntryOf(g) \notin used} })

\* trees of one file of several lines
LongWalks ==
  {<<File(Entry("d", "a.py"), "ok", s)>> : s \in SeqsUpTo(PyWalkLines, MaxLines)}
  \cup {<<File(Entry("d", "b.js"), "ok", s)>> : s \in SeqsUpTo(JsWalkLines, MaxLines)}

\* call statements: callee, positional arguments, keyword arguments
Callees ==
  {Name("eval"), Name("exec"), Attribute(Name("os"), "system"),
   Attribute(Name("pickle"), "loads"), Attribute(Name("pickle"), "load"),
   Attribute(Name("subprocess"), "call"), Attribute(Name("subprocess"), "run"),
   Attribute(Name("subprocess"), "Popen"), Name("text"),
   Attribute(Name("sqlalchemy"), "text"),
   Name("run"), Name("evaluate"), Attribute(Name("os"), "popen"),
   Attribute(Name("sa"), "text"),
   Attribute(Call(Name("f"), <<>>, <<>>), "eval"),
   Attribute(Subscript(Name("x"), Constant("int", "0")), "text"),
   Attribute(Constant("str", "s"), "exec"),
   Attribute(Attribute(Call(Name("f"), <<>>, <<>>), "os"), "system"),
   Attribute(Attribute(Call(Name("f"), <<>>, <<>>), "subprocess"), "run"),
   Attribute(Attribute(Name("a"), "b"), "c"),
   Attribute(Attribute(Name("a"), "os"), "system"),
   Attribute(Attribute(Attribute(Name("a"), "b"), "subprocess"), "run")}

FString == JoinedStr(<<FormattedValue(Name("x"))>>)

ArgLists ==
  {<<>>, <<Name("c")>>, <<FString>>, <<Constant("str", "q")>>,
   <<Name("c"), FString>>}

KeywordLists ==
  {<<>>,
   <<Keyword("shell", Constant("bool", "True"))>>,
   <<Keyword("shell", Constant("bool", "False"))>>,
   <<Keyword("shell", Constant("int", "1"))>>,
   <<Keyword("shell", Constant("str", "True"))>>,
   <<Keyword("shell", Name("flag"))>>,
   <<Keyword("check", Constant("bool", "True"))>>,
   <<Keyword(NoneArg, Name("opts"))>>,
   <<Keyword("check", Constant("bool", "True")),
     Keyword("shell", Constant("bool", "True"))>>}

CallLines ==
  {SourceLine(Expr(Call(f, a, k))) : f \in Callees, a \in ArgLists, k \in KeywordLists}

\* statements with calls below other nodes: in the arguments, the keyword
\* values and the callee of a call, in an f-string, under def, class and lambda,
\* in a comprehension
EvalCall(arg) == Call(Name("eval"), <<arg>>, <<>>)
ExecCall(arg) == Call(Name("exec"), <<arg>>, <<>>)
NestedStmts ==
  {Expr(EvalCall(EvalCall(Name("x")))),
   Expr(EvalCall(ExecCall(EvalCall(Name("x"))))),
   Expr(Call(EvalCall(Name("x")), <<Name("y")>>, <<>>)),
   Expr(Call(Name("run"), <<>>, <<Keyword("check", EvalCall(Name("x")))>>)),
   Expr(Call(Name("run"), <<EvalCall(Name("x")), EvalCall(Name("x"))>>, <<>>)),
   Expr(Call(Attribute(Name("subprocess"), "run"), <<EvalCall(Name("x"))>>,
             <<Keyword("shell", Constant("bool", "True"))>>)),
   Expr(Call(Name("text"), <<JoinedStr(<<FormattedValue(EvalCall(Name("x")))>>)>>,
             <<>>)),
   Expr(Call(Attribute(EvalCall(Name("x")), "eval"), <<>>, <<>>)),
   Expr(Call(Attribute(Subscript(Name("x"), ExecCall(Name("y"))), "run"), <<>>, <<>>)),
   Assign(Name("x"), EvalCall(Name("y"))),
   FunctionDef("f", <<Expr(EvalCall(Name("x")))>>),
   FunctionDef("f", <<Expr(EvalCall(Name("x"))), Expr(ExecCall(Name("y")))>>),
   ClassDef("C", <<Expr(ExecCall(Name("x")))>>),
   FunctionDef("f", <<Expr(Lambda(Call(Name("run"), <<EvalCall(Name("x"))>>, <<>>)))>>),
   Expr(Lambda(EvalCall(ExecCall(Name("x"))))),
   Expr(ListComp(EvalCall(Name("y")),
                 <<Comprehension(Name("y"), ExecCall(Name("z")),
                                 <<Call(Attribute(Name("os"), "system"),
                                        <<Name("y")>>, <<>>)>>)>>)),
   Expr(ListComp(Name("y"), <<Comprehension(Name("y"), Name("z"), <<>>)>>))}

NestedLines == {SourceLine(stmt) : stmt \in NestedStmts}

\* assignment-like lines: name, spacing, operator, quotes and quoted text
SecretNames ==
  {"API_KEY", "SECRET", "PASSWORD", "TOKEN", "PRIVATE_KEY", "password",
   "KEY", "TOKENS"}
NamePrefixes == {"", "MY_"}
Spacings == {<< <<>>, <<>> >>, << <<" ">>, <<" ">> >>, << <<"\t", " ">>, <<>> >>}
Operators == {"=", ":"}
Quotes == {"\"", "'"}
Bodies == {"", "abc", "abcd", "abcd1234", "it's ok", "ab\"cdef"}

\* the statement of an assignment-like line
SecretStmt(prefix, kw, op, q1, body, q2) ==
  IF q1 # q2 \/ (\E i \in DOMAIN Chars(body) : Chars(body)[i] = q1) THEN NoParse
  ELSE IF op = "=" THEN Assign(Name(prefix \o kw), Constant("str", body))
  ELSE [kind |-> "AnnAssign"]

SecretLine(prefix, kw, ws, op, q1, body, q2) ==
  RawLine(Chars(prefix) \o Chars(kw) \o ws[1] \o <<op>> \o ws[2]
            \o <<q1>> \o Chars(body) \o <<q2>>,
          SecretStmt(prefix, kw, op, q1, body, q2))

SecretLines ==
  {SecretLine(p, kw, ws, op, q1, b, q2) :
     p \in NamePrefixes, kw \in SecretNames, ws \in Spacings, op \in Operators,
     q1 \in Quotes, b \in Bodies, q2 \in Quotes}

\* assignments to names that hold a keyword inside a longer word
GluedNames == {"MYTOKEN", "XPASSWORD", "mytoken", "AUTHTOKEN"}
GluedSecretLines ==
  {SecretLine("", name, ws, "=", q, "abcd", q) :
     name \in GluedNames, ws \in Spacings, q \in Quotes}

\* markup lines: attribute, URL scheme, gap before the colon, rest of the line
MarkupAttrs ==
  {"", "dangerouslySetInnerHTML", "dangerouslysetinnerhtml",
   "dangerouslySetInnerHTML dangerouslySetInnerHTML"}
Schemes == {"", "javascript", "JavaScript", "JAVASCRIPT", "myjavascript"}
Gaps == {<<>>, <<" ">>, <<"\t", " ">>}
Colons == {":", "", "="}
Rests == {"x>", "x token=\"abcd\">"}

JsLine(attr, scheme, gap, colon, rest) ==
  RawLine(Chars("<a ") \o Chars(attr) \o Chars(" href=") \o Chars(scheme)
            \o gap \o Chars(colon) \o Chars(rest),
          NoParse)

JsLines ==
  {JsLine(a, s, g, c, r) :
     a \in MarkupAttrs, s \in Schemes, g \in Gaps, c \in Colons, r \in Rests}

\* plain lines in front of the line of interest
Pads == {[i \in 1..k |-> PlainLine] : k \in 0..(MaxLines - 1)}

\* trees of one file: a line of interest behind some plain lines
UnitWalks ==
  {<<File(Entry("d", "a.py"), "ok", pad \o <<l>>)>> :
     pad \in Pads,
     l \in CallLines \cup NestedLines \cup SecretLines \cup GluedSecretLines}
  \cup {<<File(e, "ok", <<l>>)>> : e \in JsEntries, l \in JsLines}
  \cup {<<File(Entry("d", "a.test.ts"), "ok", pad \o <<l>>)>> :
          pad \in Pads, l \in SecretLines \cup GluedSecretLines}

\* a statement with nested calls and two keyword values that look like secrets
MixedLine ==
  SourceLine(Expr(Call(Name("run"), <<EvalCall(ExecCall(Name("x")))>>,
                       <<Keyword("password", Constant("str", "abcd1234")),
                         Keyword("TOKEN", Constant("str", "abcd"))>>)))

\* a markup line with every pattern and a secret on it twice
RepeatedJsLine ==
  RawLine(MarkupSecretLine.text \o MarkupSecretLine.text, NoParse)

\* trees of one file whose lines carry several findings each
MixedWalks ==
  {<<File(Entry("d", "a.py"), "ok", s)>> :
     s \in {<<MixedLine>>, <<SecretAssignLine, MixedLine>>, <<MixedLine, EvalLine>>}}
  \cup {<<File(e, "ok", s)>> :
          e \in {Entry("d", "b.js"), Entry("d", "a.test.ts")},
          s \in {<<RepeatedJsLine>>, <<LetLine, RepeatedJsLine>>}}

Directories == Walks(MaxFiles, {}) \cup LongWalks \cup UnitWalks \cup MixedWalks

(***************************************************************************)
(* The programs: main() of security-scan.py, main() of health-check.py and *)
(* the dispatch method of the two PrometheusMiddleware classes.            *)
(***************************************************************************)
VARIABLES
  isdir,     \* os.path.isdir(args.directory)
  walk,      \* the files os.walk yields, in the order it yields them
  pc,        \* position of main()
  pos,       \* number of files scan_directory has dealt with
  findings,  \* results.findings
  routed,    \* the scanner calls made so far: path and scanner
  reads,     \* the paths whose text a scanner asked for
  visited,   \* the visit_Call invocations made so far, in order
  stdout,    \* what was printed to standard output
  stderr,    \* what was printed to the error stream
  exitcode   \* the exit status, once the process has ended

\* health-check.py
VARIABLES
  hpc,             \* position of main() and of the check_endpoint call it makes
  retries,         \* args.retries
  retry_delay,     \* args.retry_delay
  attempt,         \* the loop variable of check_endpoint
  result,          \* the result dictionary of the check_endpoint call under way
  trace,           \* the requests and sleeps of that call, in order
  results,         \* main's list of results
  overall_healthy, \* main's flag
  log_file,        \* the lines written to the log file
  returncode       \* what main returns, once it has returned

\* the PrometheusMiddleware classes
VARIABLES
  template,        \* which of the two classes is installed
  requests,        \* the dispatch calls: position and request of each
  in_progress,     \* the in-progress gauge, by method label
  request_total,   \* the request counter, by labels
  server_errors,   \* the 5xx counter of metrics-config-template.py, by labels
  observed         \* the observations of the histograms, by dispatch call

scanVars ==
  <<isdir, walk, pc, pos, findings, routed, reads, visited, stdout, stderr, exitcode>>

healthVars ==
  <<hpc, retries, retry_delay, attempt, result, trace, results, overall_healthy,
    log_file, returncode>>

metricsVars ==
  <<template, requests, in_progress, request_total, server_errors, observed>>

vars == <<scanVars, healthVars, metricsVars>>

\* health-check.py is not running
HealthOff ==
  /\ hpc = "off"
  /\ retries = 0
  /\ retry_delay = 0
  /\ attempt = 0
  /\ result = <<>>
  /\ trace = <<>>
  /\ results = <<>>
  /\ overall_healthy = TRUE
  /\ log_file = <<>>
  /\ returncode = <<>>

\* no application with a PrometheusMiddleware is running
MetricsOff ==
  /\ template = "none"
  /\ requests = <<>>
  /\ in_progress = <<>>
  /\ request_total = <<>>
  /\ server_errors = <<>>
  /\ observed = <<>>

\* security-scan.py is not running
ScanOff ==
  /\ isdir = FALSE
  /\ walk = <<>>
  /\ pc = "off"
  /\ pos = 0
  /\ findings = <<>>
  /\ routed = <<>>
  /\ reads = <<>>
  /\ visited = <<>>
  /\ stdout = <<>>
  /\ stderr = <<>>
  /\ exitcode = <<>>

Init ==
  /\ isdir \in BOOLEAN
  /\ walk \in (IF isdir THEN Directories ELSE {<<>>})
  /\ pc = "start"
  /\ pos = 0
  /\ findings = <<>>
  /\ routed = <<>>
  /\ reads = <<>>
  /\ visited = <<>>
  /\ stdout = <<>>
  /\ stderr = <<>>
  /\ exitcode = <<>>
  /\ HealthOff
  /\ MetricsOff

\* a faulty main: it reports the invalid directory and carries on
RejectDirectory_NoExit ==
  /\ pc = "start"
  /\ ~isdir
  /\ stderr' = Append(stderr, [kind |-> "error", text |-> "is not a valid directory"])
  /\ pc' = "scan"
  /\ UNCHANGED <<isdir, walk, pos, findings, routed, reads, visited, stdout, exitcode>>
  /\ UNCHANGED <<healthVars, metricsVars>>

\* main, lines 192-194: the argument is not a directory
RejectDirectory ==
  /\ pc = "start"
  /\ ~isdir
  /\ stderr' = Append(stderr, [kind |-> "error", text |-> "is not a valid directory"])
  /\ exitcode' = <<2>>
  /\ pc' = "exited"
  /\ UNCHANGED <<isdir, walk, pos, findings, routed, reads, visited, stdout>>
  /\ UNCHANGED <<healthVars, metricsVars>>

\* main, lines 196-197: results = ScanResults(); scan_directory starts
StartScan ==
  /\ pc = "start"
  /\ isdir
  /\ findings' = <<>>
  /\ pc' = "scan"
  /\ UNCHANGED <<isdir, walk, pos, routed, reads, visited, stdout, stderr, exitcode>>
  /\ UNCHANGED <<healthVars, metricsVars>>

\* what scan_directory does with one file
Dispatch(file) ==
  LET filepath == PathJoin(file.root, file.fname)
      scanner == ScannerFor(file.fname)
  IN [filepath |-> filepath,
      scanner |-> scanner,
      out |-> IF scanner = "python" THEN ScanPythonFile(file, filepath)
              ELSE IF scanner = "js_ts" THEN ScanJsTsFile(file, filepath)
              ELSE [added |-> <<>>, raised |-> "", calls |-> <<>>]]

\* one iteration of the loop of scan_directory
ScanFile ==
  /\ pc = "scan"
  /\ pos < Len(walk)
  /\ \E d \in {Dispatch(walk[pos + 1])} :
        /\ findings' = findings \o d.out.added
        /\ routed' = IF d.scanner = "none" THEN routed
                     ELSE Append(routed, [filepath |-> d.filepath, scanner |-> d.scanner])
        /\ reads' = IF d.scanner = "none" THEN reads ELSE Append(reads, d.filepath)
        /\ visited' = visited \o d.out.calls
        /\ IF d.out.raised = ""
             THEN /\ pc' = "scan"
                  /\ UNCHANGED <<stderr, exitcode>>
             ELSE \* an uncaught exception ends the process with a traceback
                  /\ pc' = "crashed"
                  /\ stderr' = Append(stderr, [kind |-> "traceback", text |-> d.out.raised])
                  /\ exitcode' = <<1>>
  /\ pos' = pos + 1
  /\ UNCHANGED <<isdir, walk, stdout>>
  /\ UNCHANGED <<healthVars, metricsVars>>

\* a faulty main: the banner is printed while scan_directory is still at work
PrintBanner_BeforeScanEnds ==
  /\ pc = "scan"
  /\ stdout' = Append(stdout, [kind |-> "banner"])
  /\ pc' = "report"
  /\ UNCHANGED <<isdir, walk, pos, findings, routed, reads, visited, stderr, exitcode>>
  /\ UNCHANGED <<healthVars, metricsVars>>

\* main, lines 200-202: the banner, once scan_directory has returned
PrintBanner ==
  /\ pc = "scan"
  /\ pos = Len(walk)
  /\ stdout' = Append(stdout, [kind |-> "banner"])
  /\ pc' = "report"
  /\ UNCHANGED <<isdir, walk, pos, findings, routed, reads, visited, stderr, exitcode>>
  /\ UNCHANGED <<healthVars, metricsVars>>

\* a faulty main: sys.exit(0) is missing after the clean-scan message
ReportNoFindings_NoExit ==
  /\ pc = "report"
  /\ findings = <<>>
  /\ stdout' = Append(stdout, [kind |-> "clean"])
  /\ pc' = "summary"
  /\ UNCHANGED <<isdir, walk, pos, findings, routed, reads, visited, stderr, exitcode>>
  /\ UNCHANGED <<healthVars, metricsVars>>

\* main, lines 204-206: no findings
ReportNoFindings ==
  /\ pc = "report"
  /\ findings = <<>>
  /\ stdout' = Append(stdout, [kind |-> "clean"])
  /\ exitcode' = <<0>>
  /\ pc' = "exited"
  /\ UNCHANGED <<isdir, walk, pos, findings, routed, reads, visited, stderr>>
  /\ UNCHANGED <<healthVars, metricsVars>>

\* a faulty main: results.findings.sort(...) sorts the list of the results
PrintFindings_SortInPlace ==
  /\ pc = "report"
  /\ findings # <<>>
  /\ findings' = Sorted(findings)
  /\ stdout' = stdout \o [i \in DOMAIN findings |->
                            [kind |-> "finding", finding |-> Sorted(findings)[i]]]
  /\ pc' = "summary"
  /\ UNCHANGED <<isdir, walk, pos, routed, reads, visited, stderr, exitcode>>
  /\ UNCHANGED <<healthVars, metricsVars>>

\* main, lines 208-209: the findings in sorted order
PrintFindings ==
  /\ pc = "report"
  /\ findings # <<>>
  /\ stdout' = stdout \o [i \in DOMAIN findings |->
                            [kind |-> "finding", finding |-> Sorted(findings)[i]]]
  /\ pc' = "summary"
  /\ UNCHANGED <<isdir, walk, pos, findings, routed, reads, visited, stderr, exitcode>>
  /\ UNCHANGED <<healthVars, metricsVars>>

\* a faulty exit status: 1 on any finding, whatever its severity
ExitStatus_AnyFinding(summary) ==
  IF summary.HIGH + summary.MEDIUM + summary.LOW > 0 THEN 1 ELSE 0

\* the exit status main derives from the summary
ExitStatus(summary) == IF summary.HIGH > 0 THEN 1 ELSE 0

\* main, lines 211-223: the summary block and the exit
PrintSummary ==
  /\ pc = "summary"
  /\ LET summary == Summary(findings)
     IN /\ stdout' = Append(stdout,
                       [kind |-> "summary", HIGH |-> summary.HIGH,
                        MEDIUM |-> summary.MEDIUM, LOW |-> summary.LOW,
                        TOTAL |-> SumValues(summary)])
        /\ exitcode' = <<ExitStatus(summary)>>
  /\ pc' = "exited"
  /\ UNCHANGED <<isdir, walk, pos, findings, routed, reads, visited, stderr>>
  /\ UNCHANGED <<healthVars, metricsVars>>

(***************************************************************************)
(* The report of main() over any ScanResults: the findings are put there   *)
(* by calls of ScanResults.add instead of by a directory walk.             *)
(***************************************************************************)
SampleSeverities == {"HIGH", "MEDIUM", "LOW"}
SamplePlaces ==
  {<<Chars("a.py"), 1>>, <<Chars("a.py"), 2>>, <<Chars("b.js"), 1>>}
SampleFindings ==
  {Finding(p[1], p[2], sev, "note") : p \in SamplePlaces, sev \in SampleSeverities}
  \cup {Finding(Chars("a.py"), 1, "INFO", "note")}

\* results = ScanResults(), and a walk that finds no file
ReportInit ==
  /\ isdir = TRUE
  /\ walk = <<>>
  /\ pc = "scan"
  /\ pos = 0
  /\ findings = <<>>
  /\ routed = <<>>
  /\ reads = <<>>
  /\ visited = <<>>
  /\ stdout = <<>>
  /\ stderr = <<>>
  /\ exitcode = <<>>
  /\ HealthOff
  /\ MetricsOff

\* results.add(file, line, severity, description)
AddFinding ==
  /\ pc = "scan"
  /\ Len(findings) < MaxFindings
  /\ \E f \in SampleFindings :
       findings' = Add(findings, f.file, f.line, f.severity, f.description)
  /\ UNCHANGED <<isdir, walk, pc, pos, routed, reads, visited, stdout, stderr, exitcode>>
  /\ UNCHANGED <<healthVars, metricsVars>>

ReportNext ==
  \/ AddFinding
  \/ PrintBanner
  \/ ReportNoFindings
  \/ PrintFindings
  \/ PrintSummary

ReportSpec == ReportInit /\ [][ReportNext]_vars

Next ==
  \/ RejectDirectory
  \/ StartScan
  \/ ScanFile
  \/ PrintBanner
  \/ ReportNoFindings
  \/ PrintFindings
  \/ PrintSummary

Spec == Init /\ [][Next]_vars

(***************************************************************************)
(* health-check.py: check_endpoint and main.                               *)
(***************************************************************************)
MaxRetries == 3

\* --retries and --retry-delay are any integers (type=int)
RetriesValues == (0 - 1)..MaxRetries
RetryDelays == {0 - 1, 5}

\* main, lines 183-186
endpoints ==
  << [path |-> "/health", name |-> "Liveness", required |-> TRUE],
     [path |-> "/health/ready", name |-> "Readiness", required |-> TRUE] >>

\* what urlopen and response.read() do in one attempt: a response with its
\* status, a URLError with its reason, or another exception
UrlOpenOutcomes ==
  {[kind |-> "response", status |-> c, text |-> "{}"] : c \in {200, 204, 503}}
  \cup {[kind |-> "URLError", status |-> 0, text |-> "Connection refused"],
        [kind |-> "Exception", status |-> 0, text |-> "timed out"]}

\* check_endpoint, lines 80-89: the result before the first attempt; None is
\* the empty sequence, a value the sequence of that value
NewResult(path) ==
  [endpoint |-> path, status |-> "unknown", http_code |-> <<>>,
   response_time_ms |-> <<>>, response_body |-> <<>>, error |-> <<>>,
   attempts |-> 0]

\* check_endpoint, lines 95-137: what one attempt writes into the result
RecordOutcome(res, o) ==
  CASE o.kind = "response" ->
         [res EXCEPT !.http_code = <<o.status>>,
                     !.response_time_ms = <<"elapsed_ms">>,
                     !.response_body = <<o.text>>,
                     !.status = IF o.status = 200 THEN "healthy"
                                ELSE IF o.status = 503 THEN "degraded"
                                ELSE "unhealthy"]
    [] o.kind = "URLError" ->
         [res EXCEPT !.response_time_ms = <<"elapsed_ms">>,
                     !.error = <<o.text>>,
                     !.status = "unreachable"]
    [] o.kind = "Exception" ->
         [res EXCEPT !.response_time_ms = <<"elapsed_ms">>,
                     !.error = <<o.text>>,
                     !.status = "error"]

\* a faulty loop: range(1, retries + 2)
MoreAttempts_OneExtra(done, n) == done + 1 <= n + 1

\* for attempt in range(1, retries + 1): there is an attempt after `done` ones
MoreAttempts(done, n) == done + 1 <= n

\* check_endpoint, line 139: if attempt < retries
SleepsAfter(n, total) == n < total

\* parse_args and main, lines 169-189
HealthInit ==
  /\ hpc = "main"
  /\ retries \in RetriesValues
  /\ retry_delay \in RetryDelays
  /\ attempt = 0
  /\ result = <<>>
  /\ trace = <<>>
  /\ results = <<>>
  /\ overall_healthy = TRUE
  /\ log_file = <<>>
  /\ returncode = <<>>
  /\ ScanOff
  /\ MetricsOff

\* main, line 194, and check_endpoint, lines 79-89: the call for the next endpoint
CallCheckEndpoint ==
  /\ hpc = "main"
  /\ Len(results) < Len(endpoints)
  /\ result' = NewResult(endpoints[Len(results) + 1].path)
  /\ attempt' = 0
  /\ trace' = <<>>
  /\ hpc' = "loop"
  /\ UNCHANGED <<retries, retry_delay, results, overall_healthy, log_file, returncode>>
  /\ UNCHANGED <<scanVars, metricsVars>>

\* check_endpoint, lines 91-141: one iteration of the loop
Attempt ==
  /\ hpc = "loop"
  /\ MoreAttempts(attempt, retries)
  /\ attempt' = attempt + 1
  /\ \E o \in UrlOpenOutcomes :
       LET request == [kind |-> "request", attempt |-> attempt + 1, outcome |-> o]
       IN /\ result' = RecordOutcome([result EXCEPT !.attempts = attempt + 1], o)
          /\ IF o.kind = "response" /\ o.status = 200
               THEN \* line 117: return result
                    /\ trace' = Append(trace, request)
                    /\ hpc' = "returned"
                    /\ UNCHANGED returncode
             ELSE IF ~SleepsAfter(attempt + 1, retries)
               THEN /\ trace' = Append(trace, request)
                    /\ hpc' = "loop"
                    /\ UNCHANGED returncode
             ELSE IF retry_delay < 0
               THEN \* time.sleep raises ValueError, which nothing catches
                    /\ trace' = Append(trace, request)
                    /\ hpc' = "crashed"
                    /\ returncode' = <<1>>
             ELSE /\ trace' = trace \o <<request, [kind |-> "sleep", attempt |-> attempt + 1,
                                                   outcome |-> o]>>
                  /\ hpc' = "loop"
                  /\ UNCHANGED returncode
  /\ UNCHANGED <<retries, retry_delay, results, overall_healthy, log_file>>
  /\ UNCHANGED <<scanVars, metricsVars>>

\* check_endpoint, line 143: the loop is exhausted
ReturnResult ==
  /\ hpc = "loop"
  /\ ~MoreAttempts(attempt, retries)
  /\ hpc' = "returned"
  /\ UNCHANGED <<retries, retry_delay, attempt, result, trace, results, overall_healthy,
                 log_file, returncode>>
  /\ UNCHANGED <<scanVars, metricsVars>>

\* main, lines 202-216: the result joins the list (the validation issues of
\* the readiness body, which only add a field to the result, are left out)
CollectResult ==
  /\ hpc = "returned"
  /\ LET endpoint == endpoints[Len(results) + 1]
     IN /\ results' = Append(results, [r \in {"name", "required"} \cup DOMAIN result |->
                                         IF r = "name" THEN endpoint.name
                                         ELSE IF r = "required" THEN endpoint.required
                                         ELSE result[r]])
        /\ overall_healthy' =
             IF result.status # "healthy" /\ endpoint.required THEN FALSE
             ELSE overall_healthy
  /\ hpc' = "main"
  /\ UNCHANGED <<retries, retry_delay, attempt, result, trace, log_file, returncode>>
  /\ UNCHANGED <<scanVars, metricsVars>>

\* main, lines 241-246: the lines of the log file for one result
LogLines(r) ==
  <<[kind |-> "result", name |-> r.name, endpoint |-> r.endpoint, text |-> r.status]>>
  \o (IF r.response_time_ms # <<>>
        THEN <<[kind |-> "time", name |-> r.name, endpoint |-> r.endpoint,
                text |-> r.response_time_ms[1]]>>
        ELSE <<>>)
  \o (IF r.error # <<>> /\ r.error[1] # ""
        THEN <<[kind |-> "error", name |-> r.name, endpoint |-> r.endpoint,
                text |-> r.error[1]]>>
        ELSE <<>>)

\* main, lines 219-251: the summary, the two files and the return value
WriteResults ==
  /\ hpc = "main"
  /\ Len(results) = Len(endpoints)
  /\ log_file' =
       <<[kind |-> "overall", name |-> "", endpoint |-> "",
          text |-> IF overall_healthy THEN "healthy" ELSE "unhealthy"]>>
       \o Flatten([k \in DOMAIN results |-> LogLines(results[k])])
  /\ returncode' = <<IF overall_healthy THEN 0 ELSE 1>>
  /\ hpc' = "exited"
  /\ UNCHANGED <<retries, retry_delay, attempt, result, trace, results, overall_healthy>>
  /\ UNCHANGED <<scanVars, metricsVars>>

HealthNext ==
  \/ CallCheckEndpoint
  \/ Attempt
  \/ ReturnResult
  \/ CollectResult
  \/ WriteResults

HealthSpec == HealthInit /\ [][HealthNext]_vars

(***************************************************************************)
(* PrometheusMiddleware.dispatch: the class of metrics-config-template.py   *)
(* ("config") and the class of prometheus-metrics-example.py ("example").  *)
(***************************************************************************)
MaxRequests == 2

Templates == {"config", "example"}

Digits == {"0", "1", "2", "3", "4", "5", "6", "7", "8", "9"}

\* part.isdigit()
IsDigit(part) == part # <<>> /\ \A k \in DOMAIN part : part[k] \in Digits

RECURSIVE Strip(_, _)
\* text.strip(c)
Strip(text, c) ==
  IF text # <<>> /\ Head(text) = c THEN Strip(Tail(text), c)
  ELSE IF text # <<>> /\ text[Len(text)] = c
    THEN Strip(SubSeq(text, 1, Len(text) - 1), c)
  ELSE text

RECURSIVE Split(_, _)
\* text.split(sep)
Split(text, sep) ==
  IF \E k \in DOMAIN text : text[k] = sep
    THEN LET k == CHOOSE i \in DOMAIN text :
                    text[i] = sep /\ \A j \in 1..(i - 1) : text[j] # sep
         IN <<SubSeq(text, 1, k - 1)>> \o Split(SubSeq(text, k + 1, Len(text)), sep)
    ELSE <<text>>

\* _normalize_path of template t: numeric segments become {id}, UUID-like
\* segments {id} in the one class and {uuid} in the other
NormalizePath(t, path) ==
  LET parts == Split(Strip(path, "/"), "/")
      normalized(part) ==
        IF IsDigit(part) THEN Chars("{id}")
        ELSE IF Len(part) = 36 /\ Cardinality({k \in DOMAIN part : part[k] = "-"}) = 4
          THEN (IF t = "config" THEN Chars("{id}") ELSE Chars("{uuid}"))
        ELSE part
  IN <<"/">> \o JoinSeqs([k \in DOMAIN parts |-> normalized(parts[k])], <<"/">>)

\* a URL path from its segments
UrlPath(segments) ==
  Flatten([k \in DOMAIN segments |-> <<"/">> \o Chars(segments[k])])

\* metrics-config-template.py, line 169
EXCLUDED_PATHS ==
  {UrlPath(<<"metrics">>), UrlPath(<<"health">>), UrlPath(<<"health", "ready">>)}

\* prometheus-metrics-example.py, line 127
SKIP_PATHS == {UrlPath(<<"metrics">>), UrlPath(<<"health">>), UrlPath(<<"ready">>)}

\* the test `path in self.EXCLUDED_PATHS` / `request.url.path in self.SKIP_PATHS`
IsExcluded(t, path) ==
  IF t = "config" THEN path \in EXCLUDED_PATHS ELSE path \in SKIP_PATHS

\* int(text) returns a number: digits, a sign and blanks around them allowed
IsInt(text) ==
  LET t == Strip(text, " ")
      body == IF t # <<>> /\ Head(t) \in {"+", "-"} THEN Tail(t) ELSE t
  IN IsDigit(body)

\* str(response.status_code)
Str(code) == CASE code = 200 -> "200" [] code = 404 -> "404" [] code = 500 -> "500"

\* the requests: method, URL path and content-length header (empty: no header)
Requests ==
  {[method |-> "GET", path |-> UrlPath(<<"metrics">>), content_length |-> <<>>],
   [method |-> "POST", path |-> UrlPath(<<"metrics">>),
    content_length |-> <<"a", "b", "c">>],
   [method |-> "GET", path |-> UrlPath(<<"health", "ready">>), content_length |-> <<>>],
   [method |-> "GET", path |-> UrlPath(<<"ready">>), content_length |-> <<>>],
   [method |-> "GET", path |-> UrlPath(<<"users", "1">>), content_length |-> <<>>],
   [method |-> "POST", path |-> UrlPath(<<"users", "1">>),
    content_length |-> <<"1", "2">>],
   [method |-> "POST", path |-> UrlPath(<<"users", "1">>),
    content_length |-> <<"a", "b", "c">>]}

\* how `await call_next(request)` ends: a response (status code and
\* content-length header), an exception of class Exception, or one of class
\* BaseException only (asyncio.CancelledError, SystemExit)
CallNextOutcomes ==
  {[kind |-> "response", status_code |-> 200, content_length |-> <<"1", "2">>],
   [kind |-> "response", status_code |-> 500, content_length |-> <<>>],
   [kind |-> "response", status_code |-> 404, content_length |-> <<"a", "b", "c">>],
   [kind |-> "Exception", status_code |-> 0, content_length |-> <<>>],
   [kind |-> "BaseException", status_code |-> 0, content_length |-> <<>>]}

\* the value of a labelled metric
ValueOf(metric, labels) == IF labels \in DOMAIN metric THEN metric[labels] ELSE 0

\* metric.labels(...).inc() and .observe(...), which adds one observation
Inc(metric, labels) ==
  IF labels \in DOMAIN metric THEN [metric EXCEPT ![labels] = @ + 1]
  ELSE [l \in DOMAIN metric \cup {labels} |-> IF l = labels THEN 1 ELSE metric[l]]

\* metric.labels(...).dec()
Dec(metric, labels) ==
  IF labels \in DOMAIN metric THEN [metric EXCEPT ![labels] = @ - 1]
  ELSE [l \in DOMAIN metric \cup {labels} |-> IF l = labels THEN 0 - 1 ELSE metric[l]]

\* an application with one of the two middleware classes, no request yet
MetricsInit ==
  /\ template \in Templates
  /\ requests = <<>>
  /\ in_progress = <<>>
  /\ request_total = <<>>
  /\ server_errors = <<>>
  /\ observed = <<>>
  /\ ScanOff
  /\ HealthOff

\* a dispatch call: its request, where it stands, and how often it has
\* incremented the gauge, decremented it and incremented the request counter
NewCall(request, at, incs) ==
  [request |-> request, pc |-> at, incs |-> incs, decs |-> 0, counted |-> 0]

\* metrics-config-template.py, lines 172-197: dispatch up to `await call_next`
ReceiveConfig(request) ==
  LET method == request.method
      endpoint == NormalizePath("config", request.path)
  IN /\ UNCHANGED <<request_total, server_errors>>
     /\ IF IsExcluded("config", request.path)
          THEN /\ requests' = Append(requests, NewCall(request, "passing", 0))
               /\ UNCHANGED <<in_progress, observed>>
        ELSE /\ in_progress' = Inc(in_progress, <<method>>)
             /\ IF request.content_length = <<>>
                  THEN /\ requests' = Append(requests, NewCall(request, "awaiting", 1))
                       /\ UNCHANGED observed
                ELSE IF IsInt(request.content_length)
                  THEN /\ requests' = Append(requests, NewCall(request, "awaiting", 1))
                       /\ observed' = Inc(observed, <<"request_size", method, endpoint>>)
                ELSE \* int(content_length) raises ValueError out of dispatch
                     /\ requests' = Append(requests, NewCall(request, "raised", 1))
                     /\ UNCHANGED observed

\* prometheus-metrics-example.py, lines 132-144: dispatch up to `await call_next`
ReceiveExample(request) ==
  /\ UNCHANGED <<request_total, server_errors, observed>>
  /\ IF IsExcluded("example", request.path)
       THEN /\ requests' = Append(requests, NewCall(request, "passing", 0))
            /\ UNCHANGED in_progress
     ELSE /\ in_progress' = Inc(in_progress, <<request.method>>)
          /\ requests' = Append(requests, NewCall(request, "awaiting", 1))

\* a request arrives and dispatch runs up to its first await
Receive ==
  /\ template \in Templates
  /\ Len(requests) < MaxRequests
  /\ \E request \in Requests :
       IF template = "config" THEN ReceiveConfig(request) ELSE ReceiveExample(request)
  /\ UNCHANGED template
  /\ UNCHANGED <<scanVars, healthVars>>

\* metrics-config-template.py, lines 197-234: dispatch from the end of
\* `await call_next` for call r, which ended as o
ResumeConfig(r, o) ==
  LET method == requests[r].request.method
      endpoint == NormalizePath("config", requests[r].request.path)
      timed == Inc(observed, <<"duration", method, endpoint>>)
  IN /\ in_progress' = Dec(in_progress, <<method>>)
     /\ CASE o.kind = "response" ->
               /\ request_total' =
                    Inc(request_total, <<method, endpoint, Str(o.status_code)>>)
               /\ server_errors' =
                    IF o.status_code >= 500
                      THEN Inc(server_errors, <<method, endpoint, Str(o.status_code)>>)
                      ELSE server_errors
               /\ observed' =
                    IF o.content_length # <<>> /\ IsInt(o.content_length)
                      THEN Inc(timed, <<"response_size", method, endpoint>>)
                      ELSE timed
               /\ requests' =
                    [requests EXCEPT ![r].decs = @ + 1, ![r].counted = @ + 1,
                       ![r].pc = IF o.content_length # <<>> /\ ~IsInt(o.content_length)
                                   THEN "raised" ELSE "returned"]
          [] o.kind = "Exception" ->
               /\ request_total' = Inc(request_total, <<method, endpoint, "500">>)
               /\ server_errors' = Inc(server_errors, <<method, endpoint, "500">>)
               /\ observed' = timed
               /\ requests' = [requests EXCEPT ![r].decs = @ + 1, ![r].counted = @ + 1,
                                               ![r].pc = "raised"]
          [] o.kind = "BaseException" ->
               \* `except Exception` is passed over, `finally` runs
               /\ UNCHANGED <<request_total, server_errors>>
               /\ observed' = timed
               /\ requests' = [requests EXCEPT ![r].decs = @ + 1, ![r].pc = "raised"]

\* prometheus-metrics-example.py, lines 144-154: dispatch from the end of
\* `await call_next` for call r, which ended as o
ResumeExample(r, o) ==
  LET method == requests[r].request.method
      path == NormalizePath("example", requests[r].request.path)
      status_code == IF o.kind = "response" THEN Str(o.status_code) ELSE "500"
  IN /\ request_total' = Inc(request_total, <<method, path, status_code>>)
     /\ observed' = Inc(observed, <<"duration", method, path>>)
     /\ in_progress' = Dec(in_progress, <<method>>)
     /\ requests' = [requests EXCEPT ![r].decs = @ + 1, ![r].counted = @ + 1,
                       ![r].pc = IF o.kind = "response" THEN "returned" ELSE "raised"]
     /\ UNCHANGED server_errors

\* lines 176-177 and 135-136: `return await call_next(request)` on an
\* excluded path
PassThrough ==
  /\ \E r \in DOMAIN requests : \E o \in CallNextOutcomes :
       /\ requests[r].pc = "passing"
       /\ requests' = [requests EXCEPT ![r].pc = IF o.kind = "response" THEN "returned"
                                                 ELSE "raised"]
  /\ UNCHANGED <<template, in_progress, request_total, server_errors, observed>>
  /\ UNCHANGED <<scanVars, healthVars>>

\* `await call_next(request)` ends for one of the calls in flight
Resume ==
  /\ \E r \in DOMAIN requests : \E o \in CallNextOutcomes :
       /\ requests[r].pc = "awaiting"
       /\ IF template = "config" THEN ResumeConfig(r, o) ELSE ResumeExample(r, o)
  /\ UNCHANGED template
  /\ UNCHANGED <<scanVars, healthVars>>

MetricsNext ==
  \/ Receive
  \/ PassThrough
  \/ Resume

MetricsSpec == MetricsInit /\ [][MetricsNext]_vars

(***************************************************************************)
(* Properties.                                                             *)
(***************************************************************************)
\* the findings recorded for one file path, in the order they were added
FindingsOf(filepath) == SelectSeq(findings, LAMBDA f : f.file = filepath)

PathOf(file) == PathJoin(file.root, file.fname)

HasHigh == \E i \in DOMAIN findings : findings[i].severity = "HIGH"

\* scan_directory has returned and main has reported
Completed == pc = "exited" /\ isdir

\* C1: after a completed scan of a valid directory the exit code is 1 exactly
\* when some finding is HIGH, and 0 otherwise (no finding, or MEDIUM/LOW only).
C1_ExitCodeIffHigh ==
  Completed =>
    /\ exitcode = <<1>> <=> HasHigh
    /\ ~HasHigh => exitcode = <<0>>

\* a completed scan with findings, none of them HIGH, that exited with 0
C1_Witness ==
  /\ Completed
  /\ findings # <<>>
  /\ ~HasHigh
  /\ exitcode = <<0>>

\* C2: with an argument that is no directory, main writes the error to the
\* error stream and exits with 2; nothing is scanned, read, found or printed
\* to standard output.
C2_InvalidDirectory ==
  ~isdir =>
    /\ stdout = <<>> /\ findings = <<>> /\ reads = <<>> /\ routed = <<>> /\ pos = 0
    /\ pc \in {"start", "exited"}
    /\ pc = "exited" =>
         /\ exitcode = <<2>>
         /\ Len(stderr) = 1 /\ stderr[1].kind = "error"

C2_Witness == ~isdir /\ pc = "exited" /\ exitcode = <<2>> /\ stderr # <<>>

\* the expression that writes a dotted name of the rule table
WrittenAs(name) ==
  CASE name = "eval" -> Name("eval")
    [] name = "exec" -> Name("exec")
    [] name = "os.system" -> Attribute(Name("os"), "system")
    [] name = "pickle.loads" -> Attribute(Name("pickle"), "loads")
    [] name = "pickle.load" -> Attribute(Name("pickle"), "load")

\* a readable .py file: plain lines, then one statement that is a single call
IsSingleCallFile(file) ==
  /\ file.read = "ok"
  /\ ScannerFor(file.fname) = "python"
  /\ file.src # <<>>
  /\ \A n \in 1..(Len(file.src) - 1) : file.src[n] = PlainLine
  /\ file.src[Len(file.src)] \in CallLines

TheCall(file) == file.src[Len(file.src)].stmt.value

\* C3: a parseable Python file whose only call is a call to a name of
\* DANGEROUS_CALLS, and that matches no other rule, gets exactly one finding:
\* the table's severity and description at the line of the call.
C3_OneFindingPerDangerousCall ==
  \A i \in 1..pos :
    \A name \in {"eval", "exec", "os.system", "pickle.loads", "pickle.load"} :
      (/\ IsSingleCallFile(walk[i])
       /\ TheCall(walk[i]).func = WrittenAs(name))
      => FindingsOf(PathOf(walk[i])) =
           <<Finding(PathOf(walk[i]), Len(walk[i].src),
                     DANGEROUS_CALLS[name][1], DANGEROUS_CALLS[name][2])>>

\* pickle.load(...) on line 2 of a scanned file, reported there
C3_Witness ==
  /\ Completed
  /\ \E i \in 1..pos :
       /\ IsSingleCallFile(walk[i])
       /\ TheCall(walk[i]).func = WrittenAs("pickle.load")
       /\ Len(walk[i].src) = 2
       /\ \E k \in DOMAIN findings :
            /\ findings[k].line = 2
            /\ findings[k].description = "pickle.load() can deserialize malicious objects"

\* the findings of the shell-injection rule
IsShellFinding(f) ==
  f.description \in
    {n \o "() called with shell=True -- risk of shell injection" :
       n \in {"subprocess.call", "subprocess.run", "subprocess.Popen"}}

\* the call passes shell=<the literal True>
PassesShellTrue(call) ==
  \E k \in DOMAIN call.keywords :
    /\ call.keywords[k].arg = "shell"
    /\ call.keywords[k].value = Constant("bool", "True")

\* C4: the shell-injection rule reports a call, once and as HIGH at its line,
\* exactly when the resolved callee is subprocess.call, subprocess.run or
\* subprocess.Popen and the call has the keyword shell with the literal True;
\* no shell keyword, a variable or any other constant, give no such finding.
C4_ShellRule ==
  \A i \in 1..pos :
    IsSingleCallFile(walk[i]) =>
      LET call == TheCall(walk[i])
          found == SelectSeq(FindingsOf(PathOf(walk[i])), IsShellFinding)
      IN IF /\ ResolveName(call.func) \in
                 {"subprocess.call", "subprocess.run", "subprocess.Popen"}
            /\ PassesShellTrue(call)
           THEN /\ Len(found) = 1
                /\ found[1].severity = "HIGH"
                /\ found[1].line = Len(walk[i].src)
                /\ found[1].description =
                     ResolveName(call.func)
                       \o "() called with shell=True -- risk of shell injection"
           ELSE found = <<>>

\* subprocess.Popen(..., check=True, shell=True) was scanned and reported
C4_Witness ==
  /\ Completed
  /\ \E i \in 1..pos :
       /\ IsSingleCallFile(walk[i])
       /\ TheCall(walk[i]).func = Attribute(Name("subprocess"), "Popen")
       /\ Len(TheCall(walk[i]).keywords) = 2
       /\ PassesShellTrue(TheCall(walk[i]))
       /\ \E k \in DOMAIN findings : IsShellFinding(findings[k])

IsSqlFinding(f) ==
  f.description = "SQL text() with f-string -- use bind parameters instead"

\* C5: the SQL rule reports a call, once and as HIGH at its line, exactly when
\* the resolved callee is text or sqlalchemy.text and the first positional
\* argument is an f-string; no positional argument, a plain string or another
\* expression in first place, give no such finding.
C5_SqlTextRule ==
  \A i \in 1..pos :
    IsSingleCallFile(walk[i]) =>
      LET call == TheCall(walk[i])
          found == SelectSeq(FindingsOf(PathOf(walk[i])), IsSqlFinding)
      IN IF /\ ResolveName(call.func) \in {"text", "sqlalchemy.text"}
            /\ Len(call.args) >= 1
            /\ call.args[1].kind = "JoinedStr"
           THEN /\ Len(found) = 1
                /\ found[1].severity = "HIGH"
                /\ found[1].line = Len(walk[i].src)
           ELSE found = <<>>

\* sqlalchemy.text(f"...") was scanned and reported
C5_Witness ==
  /\ Completed
  /\ \E i \in 1..pos :
       /\ IsSingleCallFile(walk[i])
       /\ TheCall(walk[i]).func = Attribute(Name("sqlalchemy"), "text")
       /\ TheCall(walk[i]).args = <<FString>>
       /\ \E k \in DOMAIN findings : IsSqlFinding(findings[k])

\* file i of the walk was handed to a scanner that read it and returned
ScannedThrough(i) ==
  /\ i \in 1..pos
  /\ ScannerFor(walk[i].fname) # "none"
  /\ walk[i].read = "ok"
  /\ ~(pc = "crashed" /\ pos = i)

\* the secret findings recorded for line n of a file
SecretFindingsAt(filepath, n) ==
  SelectSeq(FindingsOf(filepath),
            LAMBDA f : f.line = n /\ f.description = "Possible hardcoded secret detected")

\* the positions of the quotes that open a value assigned to a keyword:
\* keyword, optional whitespace, "=", optional whitespace, quote
OpeningQuotes(line) ==
  {b \in 1..Len(line) :
     /\ IsQuote(line[b])
     /\ \E i \in 1..Len(line) :
          \E kw \in {Chars("API_KEY"), Chars("SECRET"), Chars("PASSWORD"),
                     Chars("TOKEN"), Chars("PRIVATE_KEY")} :
            LET a == SkipSpaces(line, i + Len(kw))
            IN /\ LiteralAtFold(kw, line, i)
               /\ a <= Len(line) /\ line[a] = "="
               /\ SkipSpaces(line, a + 1) = b}

\* the position of the quote that closes the string opened at b (the next
\* quote of the same kind), 0 when the string is not closed on the line
ClosingQuote(line, b) ==
  IF \E e \in (b + 1)..Len(line) : line[e] = line[b]
    THEN CHOOSE e \in (b + 1)..Len(line) :
           line[e] = line[b] /\ \A j \in (b + 1)..(e - 1) : line[j] # line[b]
    ELSE 0

\* the position of the first quote of either kind after b, 0 when there is none
NextQuote(line, b) ==
  IF \E e \in (b + 1)..Len(line) : IsQuote(line[e])
    THEN CHOOSE e \in (b + 1)..Len(line) :
           IsQuote(line[e]) /\ \A j \in (b + 1)..(e - 1) : ~IsQuote(line[j])
    ELSE 0

IsOneSecretFinding(found) ==
  /\ Len(found) = 1
  /\ found[1].severity = "MEDIUM"

\* C6 as stated: on every scanned line, a keyword followed by "=" and a quoted
\* string of at least 4 characters between its quotes gives exactly one MEDIUM
\* secret finding at that line, and a quoted string of fewer than 4 gives none.
C6_Original ==
  \A i \in 1..pos :
    ScannedThrough(i) =>
      \A n \in DOMAIN walk[i].src :
        LET line == walk[i].src[n].text
            opens == {b \in OpeningQuotes(line) : ClosingQuote(line, b) # 0}
            found == SecretFindingsAt(PathOf(walk[i]), n)
        IN /\ (\E b \in opens : ClosingQuote(line, b) - b - 1 >= 4)
                => IsOneSecretFinding(found)
           /\ (opens # {} /\ \A b \in opens : ClosingQuote(line, b) - b - 1 < 4)
                => found = <<>>

\* C6 (amended): on every scanned line, a keyword followed by "=" and a quote
\* gives exactly one MEDIUM secret finding at that line when at least 4
\* characters stand between that quote and the next quote character of either
\* kind, and none when fewer than 4 do or no quote character follows.
C6_SecretFinding ==
  \A i \in 1..pos :
    ScannedThrough(i) =>
      \A n \in DOMAIN walk[i].src :
        LET line == walk[i].src[n].text
            opens == OpeningQuotes(line)
            found == SecretFindingsAt(PathOf(walk[i]), n)
            long(b) == NextQuote(line, b) # 0 /\ NextQuote(line, b) - b - 1 >= 4
        IN /\ (\E b \in opens : long(b)) => IsOneSecretFinding(found)
           /\ (opens # {} /\ \A b \in opens : ~long(b)) => found = <<>>

\* a lower-case keyword with a value of exactly 4 characters, reported on line 2
C6_Witness ==
  /\ Completed
  /\ \E i \in 1..pos :
       /\ ScannedThrough(i)
       /\ Len(walk[i].src) = 2
       /\ walk[i].src[2].text = Chars("password") \o <<"=", "'", "a", "b", "c", "d", "'">>
       /\ IsOneSecretFinding(SecretFindingsAt(PathOf(walk[i]), 2))

\* the substring sub occurs in line
Contains(sub, line) == \E i \in 1..Len(line) : LiteralAt(sub, line, i)

\* the pattern findings recorded for line n of a file
PatternFindingsAt(filepath, n) ==
  SelectSeq(FindingsOf(filepath),
            LAMBDA f : f.line = n /\ f.description # "Possible hardcoded secret detected")

MarkupFinding(filepath, n) ==
  Finding(filepath, n, "MEDIUM", "dangerouslySetInnerHTML can lead to XSS")
UrlFinding(filepath, n) ==
  Finding(filepath, n, "HIGH", "javascript: URL is an XSS vector")

\* C7: in a JS/TS/JSX/TSX file a line with both dangerouslySetInnerHTML and
\* javascript: gets exactly two pattern findings at its line number, the MEDIUM
\* one before the HIGH one; a line with only one of the two gets only its own.
C7_BothPatterns ==
  \A i \in 1..pos :
    (ScannedThrough(i) /\ ScannerFor(walk[i].fname) = "js_ts") =>
      \A n \in DOMAIN walk[i].src :
        LET line == walk[i].src[n].text
            path == PathOf(walk[i])
            markup == Contains(Chars("dangerouslySetInnerHTML"), line)
            url == Contains(Chars("javascript") \o <<":">>, line)
            found == PatternFindingsAt(path, n)
        IN /\ (markup /\ url) => found = <<MarkupFinding(path, n), UrlFinding(path, n)>>
           /\ (markup /\ ~Contains(Chars("javascript"), line))
                => found = <<MarkupFinding(path, n)>>
           /\ (url /\ ~markup) => found = <<UrlFinding(path, n)>>

\* a .tsx line with both patterns and a secret: three findings, two of them
\* pattern findings
C7_Witness ==
  /\ Completed
  /\ \E i \in 1..pos :
       /\ ScannedThrough(i)
       /\ walk[i].fname = Chars("f.tsx")
       /\ Contains(Chars("dangerouslySetInnerHTML"), walk[i].src[1].text)
       /\ Contains(Chars("javascript") \o <<":">>, walk[i].src[1].text)
       /\ Len(PatternFindingsAt(PathOf(walk[i]), 1)) = 2
       /\ Len(FindingsOf(PathOf(walk[i]))) = 3

\* a readable .py file the parser rejects with a syntax error
IsUnparsedPython(file) ==
  /\ ScannerFor(file.fname) = "python"
  /\ file.read = "ok"
  /\ \E n \in DOMAIN file.src : file.src[n].stmt = NoParse
  /\ \A n \in DOMAIN file.src : file.src[n].stmt # TooDeep

\* C8: a readable .py file that does not parse gets no structural finding and
\* does not end the scan, and the secret check still runs on each of its lines:
\* its findings are exactly the MEDIUM secret findings of its lines.
C8_UnparsedFile ==
  \A i \in 1..pos :
    IsUnparsedPython(walk[i]) =>
      /\ ~(pc = "crashed" /\ pos = i)
      /\ \A k \in DOMAIN FindingsOf(PathOf(walk[i])) :
           /\ FindingsOf(PathOf(walk[i]))[k].severity = "MEDIUM"
           /\ FindingsOf(PathOf(walk[i]))[k].description =
                "Possible hardcoded secret detected"
      /\ \A n \in DOMAIN walk[i].src :
           Len(SecretFindingsAt(PathOf(walk[i]), n)) =
             IF HARDCODED_SECRET_RE(walk[i].src[n].text) THEN 1 ELSE 0

\* eval(x) on line 1 and an unparseable secret on line 2: only the secret is found
C8_Witness ==
  /\ Completed
  /\ \E i \in 1..pos :
       /\ IsUnparsedPython(walk[i])
       /\ walk[i].src = <<EvalLine, BrokenSecretLine>>
       /\ FindingsOf(PathOf(walk[i])) =
            <<Finding(PathOf(walk[i]), 2, "MEDIUM", "Possible hardcoded secret detected")>>

\* C9: when reading a file fails (OSError or UnicodeDecodeError) the scanner
\* returns without adding a finding and without printing, and scan_directory
\* goes on to the next file.
C9_ReadFailureSkipsFile ==
  [][(/\ pc = "scan"
      /\ pos < Len(walk)
      /\ walk[pos + 1].read \in {"OSError", "UnicodeDecodeError"})
     => (/\ findings' = findings
         /\ stdout' = stdout
         /\ stderr' = stderr
         /\ exitcode' = exitcode
         /\ pos' = pos + 1
         /\ pc' = "scan")]_vars

\* an undecodable file came first, and the file after it was still scanned
C9_Witness ==
  /\ Completed
  /\ Len(walk) = 2
  /\ walk[1].read = "UnicodeDecodeError"
  /\ ScannerFor(walk[1].fname) = "js_ts"
  /\ FindingsOf(PathOf(walk[1])) = <<>>
  /\ FindingsOf(PathOf(walk[2])) # <<>>

\* the routing table: the scanner for a file name, by its extension
ExpectedScanner(fname) ==
  LET ext == Splitext(fname)
  IN IF ext = Chars(".py") THEN "python"
     ELSE IF ext \in {Chars(".js"), Chars(".jsx"), Chars(".ts"), Chars(".tsx")}
       THEN "js_ts"
     ELSE "none"

\* the scanner calls the routing table asks for, for the first n files
RECURSIVE ExpectedRouting(_)
ExpectedRouting(n) ==
  IF n = 0 THEN <<>>
  ELSE IF ExpectedScanner(walk[n].fname) = "none" THEN ExpectedRouting(n - 1)
  ELSE Append(ExpectedRouting(n - 1),
              [filepath |-> PathOf(walk[n]),
               scanner |-> ExpectedScanner(walk[n].fname)])

\* C10: every file dealt with went to the scanner of its extension, once: .py
\* to the Python scanner, .js/.jsx/.ts/.tsx to the JS/TS scanner; a file with
\* another extension is not read and has no finding; when scan_directory has
\* returned, every file of the walk has been dealt with.
C10_Routing ==
  /\ pos <= Len(walk)
  /\ routed = ExpectedRouting(pos)
  /\ reads = [k \in DOMAIN routed |-> routed[k].filepath]
  /\ \A i \in 1..pos :
       ExpectedScanner(walk[i].fname) = "none" =>
         /\ FindingsOf(PathOf(walk[i])) = <<>>
         /\ \A k \in DOMAIN reads : reads[k] # PathOf(walk[i])
  /\ \A k \in DOMAIN findings :
       \E j \in DOMAIN routed : routed[j].filepath = findings[k].file
  /\ (isdir /\ pc \in {"report", "summary", "exited"}) => pos = Len(walk)

\* a walk of an ignored U.PY and a scanned f.tsx
C10_Witness ==
  /\ Completed
  /\ Len(walk) = 2
  /\ walk[1].fname = Chars("U.PY")
  /\ walk[2].fname = Chars("f.tsx")
  /\ routed = <<[filepath |-> PathJoin(Chars("d/s"), Chars("f.tsx")), scanner |-> "js_ts"]>>
  /\ findings # <<>>

\* the findings printed so far, in the order they were printed
Printed ==
  LET lines == SelectSeq(stdout, LAMBDA e : e.kind = "finding")
  IN [i \in DOMAIN lines |-> lines[i].finding]

\* how often x occurs in seq
Occurrences(seq, x) == Cardinality({i \in DOMAIN seq : seq[i] = x})

\* (f.severity, f.file, f.line) <= (g.severity, g.file, g.line), strings as text
KeyAtMost(f, g) ==
  LET fs == Chars(f.severity)
      gs == Chars(g.severity)
  IN \/ StrLess(fs, gs)
     \/ fs = gs /\ StrLess(f.file, g.file)
     \/ fs = gs /\ f.file = g.file /\ f.line <= g.line

\* C11: once the finding list is printed, every finding of the results is
\* printed exactly once (duplicates as often as they occur), in ascending order
\* of (severity, file, line) with the severity compared as text: every HIGH
\* before every LOW, every LOW before every MEDIUM.
C11_SortedReport ==
  (pc \in {"summary", "exited"} /\ findings # <<>>) =>
    /\ Len(Printed) = Len(findings)
    /\ \A i \in DOMAIN findings :
         Occurrences(Printed, findings[i]) = Occurrences(findings, findings[i])
    /\ \A i, j \in DOMAIN Printed :
         /\ i < j => KeyAtMost(Printed[i], Printed[j])
         /\ (Printed[i].severity = "HIGH" /\ Printed[j].severity \in {"LOW", "MEDIUM"})
              => i < j
         /\ (Printed[i].severity = "LOW" /\ Printed[j].severity = "MEDIUM") => i < j

\* LOW, HIGH, MEDIUM were added in that order and are printed HIGH, LOW, MEDIUM
C11_Witness ==
  /\ pc = "exited"
  /\ Len(findings) = 3
  /\ [i \in 1..3 |-> findings[i].severity] = <<"LOW", "HIGH", "MEDIUM">>
  /\ [i \in 1..3 |-> Printed[i].severity] = <<"HIGH", "LOW", "MEDIUM">>

\* the kinds of the events on standard output, in order
Kinds == [i \in DOMAIN stdout |-> stdout[i].kind]

\* the process has not ended before its output is complete
ExitsLast ==
  /\ exitcode # <<>> => pc \in {"exited", "crashed"}
  /\ pc \in {"start", "scan", "crashed"} => stdout = <<>>
  /\ pc = "report" => Kinds = <<"banner">>
  /\ pc = "summary" =>
       /\ Len(Kinds) >= 2 /\ Kinds[1] = "banner"
       /\ \A i \in 2..Len(Kinds) : Kinds[i] = "finding"

\* C12 as stated: on every completed scan standard output holds the banner,
\* then the clean-scan message or the finding list, then the summary block, and
\* the process exits only after the last of them.
C12_Original ==
  /\ ExitsLast
  /\ Completed =>
       /\ Len(Kinds) >= 3
       /\ Kinds[1] = "banner"
       /\ Kinds[Len(Kinds)] = "summary"
       /\ \/ SubSeq(Kinds, 2, Len(Kinds) - 1) = <<"clean">>
          \/ \A i \in 2..(Len(Kinds) - 1) : Kinds[i] = "finding"

\* C12 (amended): on every completed scan standard output holds the banner
\* first, then either the clean-scan message and nothing more, or the sorted
\* finding list followed by the summary block with the HIGH, MEDIUM, LOW and
\* TOTAL counts; the process exits only after the last of them.
C12_OutputOrder ==
  /\ ExitsLast
  /\ Completed =>
       \/ findings = <<>> /\ Kinds = <<"banner", "clean">> /\ exitcode = <<0>>
       \/ /\ findings # <<>>
          /\ Len(Kinds) = Len(findings) + 2
          /\ Kinds[1] = "banner"
          /\ \A i \in 2..(Len(Kinds) - 1) : Kinds[i] = "finding"
          /\ Printed = Sorted(findings)
          /\ Kinds[Len(Kinds)] = "summary"
          /\ {"HIGH", "MEDIUM", "LOW", "TOTAL"} \subseteq DOMAIN stdout[Len(stdout)]

\* a completed scan that printed the banner, two findings and the summary
C12_Witness ==
  /\ Completed
  /\ Len(walk) = 2
  /\ Kinds = <<"banner", "finding", "finding", "summary">>

\* C13 as stated: no failure raised while scanning one file leaves
\* scan_directory: the walk reaches the files after it and the run ends with a
\* report and exit code 0 or 1.
C13_NoFailurePropagates ==
  /\ pc # "crashed"
  /\ (isdir /\ exitcode # <<>>) =>
       /\ pos = Len(walk)
       /\ exitcode \in {<<0>>, <<1>>}
       /\ Kinds # <<>> /\ Kinds[1] = "banner"

\* the number of findings of one severity
CountOf(sev) == Cardinality({i \in DOMAIN findings : findings[i].severity = sev})

\* C14: summary() has the keys HIGH, MEDIUM and LOW whatever the findings are,
\* each with the number of findings of that severity; the step that prints the
\* summary block prints these counts and a TOTAL equal to the number of
\* findings, and leaves the findings as they were.
C14_Summary ==
  [][pc = "summary" =>
       /\ {"HIGH", "MEDIUM", "LOW"} \subseteq DOMAIN Summary(findings)
       /\ \A sev \in {"HIGH", "MEDIUM", "LOW"} : Summary(findings)[sev] = CountOf(sev)
       /\ findings' = findings
       /\ Len(stdout') = Len(stdout) + 1
       /\ LET block == stdout'[Len(stdout')]
          IN /\ block.kind = "summary"
             /\ block.HIGH = CountOf("HIGH")
             /\ block.MEDIUM = CountOf("MEDIUM")
             /\ block.LOW = CountOf("LOW")
             /\ block.TOTAL = Len(findings)]_vars

\* two HIGH findings and one of a severity outside the three: LOW and MEDIUM
\* are printed as 0 and the total is 3
C14_Witness ==
  /\ pc = "exited"
  /\ Len(findings) = 3
  /\ CountOf("HIGH") = 2
  /\ CountOf("INFO") = 1
  /\ stdout[Len(stdout)].kind = "summary"
  /\ stdout[Len(stdout)].LOW = 0
  /\ stdout[Len(stdout)].MEDIUM = 0
  /\ stdout[Len(stdout)].TOTAL = 3

RECURSIVE IsChain(_)
\* an identifier, or attribute accesses on an identifier
IsChain(node) ==
  \/ node.kind = "Name"
  \/ node.kind = "Attribute" /\ IsChain(node.value)

RECURSIVE Segments(_)
\* the segments of a chain as the source writes them, root identifier first
Segments(node) ==
  IF node.kind = "Name" THEN <<node.id>>
  ELSE Append(Segments(node.value), node.attr)

RECURSIVE Dotted(_)
\* segments joined with "."
Dotted(segs) ==
  IF Len(segs) = 1 THEN segs[1]
  ELSE Dotted(SubSeq(segs, 1, Len(segs) - 1)) \o "." \o segs[Len(segs)]

\* C15: for every call visited, a callee that is a bare identifier resolves to
\* that identifier, and a callee that is an attribute chain on an identifier
\* resolves to its segments joined with ".", root first and called attribute
\* last, whatever the length of the chain.
C15_ResolveName ==
  \A k \in DOMAIN visited :
    LET func == visited[k].node.func
    IN /\ func.kind = "Name" => visited[k].name = func.id
       /\ IsChain(func) => visited[k].name = Dotted(Segments(func))

\* a.b.subprocess.run(...) was visited and resolved to "a.b.subprocess.run"
C15_Witness ==
  /\ Completed
  /\ \E k \in DOMAIN visited :
       /\ visited[k].node.func =
            Attribute(Attribute(Attribute(Name("a"), "b"), "subprocess"), "run")
       /\ visited[k].name = "a.b.subprocess.run"

\* C16 as stated: a callee whose chain does not start at an identifier resolves
\* to the empty name and the call gets no finding from any rule, whatever the
\* attribute names of the chain are.
C16_UnresolvedRoot ==
  \A k \in DOMAIN visited :
    ~IsChain(visited[k].node.func) =>
      /\ visited[k].name = ""
      /\ visited[k].added = <<>>

\* the direct constituents of a node of the tree
Constituents(node) ==
  CASE node.kind = "Module" -> node.body
    [] node.kind = "FunctionDef" -> node.body
    [] node.kind = "ClassDef" -> node.body
    [] node.kind = "Expr" -> <<node.value>>
    [] node.kind = "Assign" -> <<node.targets[1], node.value>>
    [] node.kind = "Lambda" -> <<node.body>>
    [] node.kind = "ListComp" -> node.generators \o <<node.elt>>
    [] node.kind = "comprehension" -> node.ifs \o <<node.iter, node.target>>
    [] node.kind = "Call" -> node.keywords \o node.args \o <<node.func>>
    [] node.kind = "keyword" -> <<node.value>>
    [] node.kind = "Attribute" -> <<node.value>>
    [] node.kind = "Subscript" -> <<node.slice, node.value>>
    [] node.kind = "JoinedStr" -> node.values
    [] node.kind = "FormattedValue" -> <<node.value>>
    [] OTHER -> <<>>

RECURSIVE CallNodes(_)
\* the call expressions of a tree, one entry for each
CallNodes(node) ==
  (IF node.kind = "Call" THEN <<node>> ELSE <<>>)
    \o Flatten([k \in DOMAIN Constituents(node) |-> CallNodes(Constituents(node)[k])])

\* the call nodes visit_Call was invoked for in one file
VisitedIn(filepath) ==
  LET own == SelectSeq(visited, LAMBDA e : e.filepath = filepath)
  IN [k \in DOMAIN own |-> own[k].node]

\* C17: for every .py file that parses, visit_Call is invoked for every call
\* expression of the tree exactly once, wherever it stands: under def, class
\* and lambda, in a comprehension, in the arguments, the keyword values and the
\* callee of another call.
C17_EveryCallOnce ==
  \A i \in 1..pos :
    (/\ ScannedThrough(i)
     /\ ScannerFor(walk[i].fname) = "python"
     /\ Parse(walk[i].src).raised = "") =>
      LET calls == CallNodes(Parse(walk[i].src).tree)
          seen == VisitedIn(PathOf(walk[i]))
      IN /\ Len(seen) = Len(calls)
         /\ \A k \in DOMAIN calls :
              Occurrences(seen, calls[k]) = Occurrences(calls, calls[k])

\* the three calls of [eval(y) for y in exec(z) if os.system(y)] were visited
C17_Witness ==
  /\ Completed
  /\ \E i \in 1..pos :
       /\ ScannedThrough(i)
       /\ \E n \in DOMAIN walk[i].src :
            /\ walk[i].src[n].stmt.kind = "Expr"
            /\ walk[i].src[n].stmt.value.kind = "ListComp"
       /\ Len(VisitedIn(PathOf(walk[i]))) = 3
       /\ Len(FindingsOf(PathOf(walk[i]))) = 3

\* the description of rule 1 for a name
RuleOneDescription(name) ==
  CASE name = "eval" -> "Use of eval() can execute arbitrary code"
    [] name = "exec" -> "Use of exec() can execute arbitrary code"
    [] name = "os.system" -> "os.system() is vulnerable to shell injection"
    [] name = "pickle.loads" -> "pickle.loads() can deserialize malicious objects"
    [] name = "pickle.load" -> "pickle.load() can deserialize malicious objects"

\* the conditions of the three rules for one visit_Call invocation
MeetsRuleOne(e) ==
  e.name \in {"eval", "exec", "os.system", "pickle.loads", "pickle.load"}
MeetsRuleTwo(e) ==
  /\ e.name \in {"subprocess.call", "subprocess.run", "subprocess.Popen"}
  /\ PassesShellTrue(e.node)
MeetsRuleThree(e) ==
  /\ e.name \in {"text", "sqlalchemy.text"}
  /\ e.node.args # <<>>
  /\ e.node.args[1].kind = "JoinedStr"

\* every rule decides on its own condition alone: the findings of an
\* invocation are those of the rules whose condition holds, in rule order
RulesDecideAlone ==
  \A k \in DOMAIN visited :
    LET e == visited[k]
        at(description) == <<Finding(e.filepath, e.node.lineno, "HIGH", description)>>
    IN e.added =
         (IF MeetsRuleOne(e) THEN at(RuleOneDescription(e.name)) ELSE <<>>)
         \o (IF MeetsRuleTwo(e)
               THEN at(e.name \o "() called with shell=True -- risk of shell injection")
               ELSE <<>>)
         \o (IF MeetsRuleThree(e)
               THEN at("SQL text() with f-string -- use bind parameters instead")
               ELSE <<>>)

\* the call expressions of the statements the model scans
ScannedCalls ==
  UNION {{CallNodes(l.stmt)[k] : k \in DOMAIN CallNodes(l.stmt)} :
           l \in {m \in CallLines \cup NestedLines : m.stmt.kind \notin ParseErrors}}

IsAlnum(c) ==
  c \in DOMAIN LowerOf \/ c \in {LowerOf[u] : u \in DOMAIN LowerOf}
    \/ c \in {"0", "1", "2", "3", "4", "5", "6", "7", "8", "9"}

\* the positions where a keyword stands as a whole word part: at the start of
\* the line or behind a character that is neither a letter nor a digit
WholeTokenStarts(line) ==
  {i \in 1..Len(line) : i = 1 \/ ~IsAlnum(line[i - 1])}

\* C19 as stated: the secret check matches a keyword only as a whole token of
\* the left-hand identifier: a line where the keywords that are followed by "="
\* and a quoted value all stand inside a longer word gets no secret finding.
C19_WholeToken ==
  \A i \in 1..pos :
    ScannedThrough(i) =>
      \A n \in DOMAIN walk[i].src :
        LET line == walk[i].src[n].text
        IN SecretFindingsAt(PathOf(walk[i]), n) # <<>> =>
             \E at \in WholeTokenStarts(line) :
               \E kw \in {Chars("API_KEY"), Chars("SECRET"), Chars("PASSWORD"),
                          Chars("TOKEN"), Chars("PRIVATE_KEY")} :
                 LiteralAtFold(kw, line, at)

\* the text javascript, then any whitespace, then a colon, somewhere in line
HasJavascriptColon(line) ==
  \E i \in 1..Len(line) :
    /\ LiteralAt(Chars("javascript"), line, i)
    /\ \E j \in (i + 10)..Len(line) :
         /\ line[j] = ":"
         /\ \A k \in (i + 10)..(j - 1) : line[k] \in {" ", "\t"}

\* the findings of the javascript: pattern for line n of a file
UrlFindingsAt(filepath, n) ==
  SelectSeq(FindingsOf(filepath),
            LAMBDA f : f.line = n /\ f.description = "javascript: URL is an XSS vector")

\* C20: in a JS/TS file a line gets the HIGH finding of the javascript: pattern,
\* once, exactly when it contains the lower-case text javascript followed by a
\* colon, whitespace allowed between the two; JavaScript: and JAVASCRIPT: give
\* no finding.
C20_JavascriptPattern ==
  \A i \in 1..pos :
    (ScannedThrough(i) /\ ScannerFor(walk[i].fname) = "js_ts") =>
      \A n \in DOMAIN walk[i].src :
        LET found == UrlFindingsAt(PathOf(walk[i]), n)
        IN IF HasJavascriptColon(walk[i].src[n].text)
             THEN found = <<UrlFinding(PathOf(walk[i]), n)>>
             ELSE found = <<>>

\* "javascript", a tab, a blank and the colon in a .jsx file: one HIGH finding
C20_Witness ==
  /\ Completed
  /\ \E i \in 1..pos :
       /\ ScannedThrough(i)
       /\ walk[i].fname = Chars("c.jsx")
       /\ \E at \in 1..Len(walk[i].src[1].text) :
            LiteralAt(Chars("javascript") \o <<"\t", " ", ":">>, walk[i].src[1].text, at)
       /\ UrlFindingsAt(PathOf(walk[i]), 1) = <<UrlFinding(PathOf(walk[i]), 1)>>

\* C21: in every state of a scan each finding of the results has a severity
\* among HIGH, MEDIUM and LOW, a line number of at least 1, and the path of a
\* file that was handed to a scanner.
C21_FindingsWellFormed ==
  \A k \in DOMAIN findings :
    /\ findings[k].severity \in {"HIGH", "MEDIUM", "LOW"}
    /\ findings[k].line \in Nat
    /\ findings[k].line >= 1
    /\ \E j \in DOMAIN routed : routed[j].filepath = findings[k].file

\* two files scanned: a HIGH finding at line 1 of one of them and a MEDIUM
\* finding of the other one, both paths among the routed ones
C21_Witness ==
  /\ pc = "scan"
  /\ pos = 2
  /\ \E k \in DOMAIN findings :
       findings[k].severity = "HIGH" /\ findings[k].line = 1
  /\ \E k \in DOMAIN findings :
       /\ findings[k] # findings[1]
       /\ findings[k].severity = "MEDIUM"
       /\ findings[k].file # findings[1].file
       /\ \E j \in DOMAIN routed : routed[j].filepath = findings[k].file

\* a is the front part of b
IsPrefix(a, b) == Len(a) <= Len(b) /\ SubSeq(b, 1, Len(a)) = a

\* C22: the results are append-only: every step leaves the findings already
\* present where they are and as they are, and adds new ones at the end only;
\* the steps of the report (sorted print, summary, exit) leave the sequence as
\* the scan built it.
C22_AppendOnly ==
  [][/\ IsPrefix(findings, findings')
     /\ pc \in {"report", "summary"} => findings' = findings]_vars

\* the report is out, sorted, and the results still hold the findings in the
\* order of discovery, which is not the sorted order
C22_Witness ==
  /\ Completed
  /\ Len(findings) >= 2
  /\ Len(Printed) = Len(findings)
  /\ Printed # findings
  /\ \E i, j \in DOMAIN findings : i < j /\ ~KeyAtMost(findings[i], findings[j])
  /\ \E k \in DOMAIN stdout : stdout[k].kind = "summary"

\* the orders in which a walk can yield the files of w
Orders(w) == {[i \in DOMAIN w |-> w[p[i]]] : p \in Permutations(DOMAIN w)}

\* what a run that is handed the files in the order w prints and exits with
ReportOf(w) ==
  LET outs == [i \in DOMAIN w |-> Dispatch(w[i]).out]
      fs == Flatten([i \in DOMAIN w |-> outs[i].added])
  IN IF \E i \in DOMAIN w : outs[i].raised # ""
       THEN [printed |-> <<>>, counts |-> <<>>, exitcode |-> <<1>>]
     ELSE IF fs = <<>>
       THEN [printed |-> <<>>, counts |-> <<>>, exitcode |-> <<0>>]
     ELSE [printed |-> Sorted(fs),
           counts |-> <<Summary(fs).HIGH, Summary(fs).MEDIUM, Summary(fs).LOW,
                        SumValues(Summary(fs))>>,
           exitcode |-> <<ExitStatus(Summary(fs))>>]

\* the counts of the summary block on standard output
PrintedCounts ==
  LET blocks == SelectSeq(stdout, LAMBDA e : e.kind = "summary")
  IN IF blocks = <<>> THEN <<>>
     ELSE <<blocks[1].HIGH, blocks[1].MEDIUM, blocks[1].LOW, blocks[1].TOTAL>>

\* C23: what a finished run has printed does not depend on the order of the
\* walk: for every order of the same files the findings printed (ties on
\* severity, file and line included), the summary counts and the exit code
\* are those of this run.
C23_OrderIndependent ==
  (isdir /\ pc \in {"exited", "crashed"}) =>
    \A w \in Orders(walk) :
      ReportOf(w) = [printed |-> Printed, counts |-> PrintedCounts,
                     exitcode |-> exitcode]

\* two files with findings of the same severity on the same line number, one
\* of them with two MEDIUM findings on one line; the report is not in the order
\* of discovery
C23_Witness ==
  /\ Completed
  /\ Len(walk) = 2
  /\ walk[1].src = <<MarkupSecretLine>>
  /\ walk[2].src = <<MarkupLine>>
  /\ Len(Printed) = 5
  /\ Printed # findings
  /\ Printed[4].file = Printed[5].file
  /\ Printed[4].description = "dangerouslySetInnerHTML can lead to XSS"
  /\ Printed[5].description = "Possible hardcoded secret detected"

\* C24: nothing is on standard output before scan_directory has dealt with
\* every file: while main is at its start or in the scan both streams are
\* empty, a run ended by an exception of the scan has printed nothing to
\* standard output, and the first thing ever printed there is the banner.
C24_NoOutputBeforeReport ==
  /\ pc \in {"start", "scan"} => stdout = <<>> /\ stderr = <<>>
  /\ pc = "crashed" => stdout = <<>>
  /\ stdout # <<>> =>
       /\ isdir
       /\ pos = Len(walk)
       /\ pc \in {"report", "summary", "exited"}
       /\ stdout[1].kind = "banner"

\* in the middle of a scan: one of two files is done, findings are recorded,
\* nothing has been printed
C24_Witness ==
  /\ pc = "scan"
  /\ Len(walk) = 2
  /\ pos = 1
  /\ findings # <<>>
  /\ stdout = <<>>
  /\ stderr = <<>>

RECURSIVE PreOrderCalls(_)
\* the call expressions of a tree in pre-order: a node before its subtrees, the
\* subtrees in the order of the node's fields
PreOrderCalls(node) ==
  (IF node.kind = "Call" THEN <<node>> ELSE <<>>)
    \o Flatten([k \in DOMAIN Children(node) |-> PreOrderCalls(Children(node)[k])])

\* the visit_Call invocations made for one file, in order
VisitsOf(filepath) == SelectSeq(visited, LAMBDA e : e.filepath = filepath)

\* C25: the findings of a .py file that parses are, in this order: the
\* findings of the calls, call by call in pre-order of the tree (an enclosing
\* call before the calls nested in it), then the secret findings in ascending
\* order of their line numbers.
C25_DiscoveryOrder ==
  \A i \in 1..pos :
    (/\ ScannedThrough(i)
     /\ ScannerFor(walk[i].fname) = "python"
     /\ Parse(walk[i].src).raised = "") =>
      LET fs == FindingsOf(PathOf(walk[i]))
          visits == VisitsOf(PathOf(walk[i]))
          structural == AddedBy(visits)
          secrets == SubSeq(fs, Len(structural) + 1, Len(fs))
      IN /\ IsPrefix(structural, fs)
         /\ [k \in DOMAIN visits |-> visits[k].node]
              = PreOrderCalls(Parse(walk[i].src).tree)
         /\ \A k \in DOMAIN visits :
              \A j \in DOMAIN visits :
                (j # k /\ \E c \in DOMAIN PreOrderCalls(visits[k].node) :
                             c > 1 /\ PreOrderCalls(visits[k].node)[c] = visits[j].node)
                  => k < j
         /\ \A k \in DOMAIN structural :
              structural[k].description # "Possible hardcoded secret detected"
         /\ \A k \in DOMAIN secrets :
              secrets[k].description = "Possible hardcoded secret detected"
         /\ \A j, k \in DOMAIN secrets : j < k => secrets[j].line < secrets[k].line

\* a secret on line 1, and on line 2 run(eval(exec(x)), password=..., TOKEN=...):
\* eval of line 2, exec of line 2, then the secrets of lines 1 and 2
C25_Witness ==
  /\ Completed
  /\ Len(walk) = 1
  /\ walk[1].src = <<SecretAssignLine, MixedLine>>
  /\ [k \in DOMAIN findings |-> <<findings[k].line, findings[k].description>>]
       = << <<2, "Use of eval() can execute arbitrary code">>,
            <<2, "Use of exec() can execute arbitrary code">>,
            <<1, "Possible hardcoded secret detected">>,
            <<2, "Possible hardcoded secret detected">> >>

\* the positions of line where sub starts
StartsOf(sub, line) == {i \in 1..Len(line) : LiteralAt(sub, line, i)}

\* the positions of line where the secret expression matches
SecretStarts(line) ==
  {i \in 1..Len(line) : \E kw \in SECRET_KEYWORDS : SecretMatchAt(kw, line, i)}

\* the findings recorded for line n of a file
FindingsAt(filepath, n) == SelectSeq(FindingsOf(filepath), LAMBDA f : f.line = n)

\* C26: a line check adds one finding for a line however often the line
\* matches: a line with several secret-like assignments has exactly one secret
\* finding; in a JS/TS file a line with several occurrences of a pattern has
\* exactly one finding of that pattern, and no line has more than three
\* findings; in a .py file no line has more than one secret finding.
C26_OncePerLine ==
  \A i \in 1..pos :
    ScannedThrough(i) =>
      \A n \in DOMAIN walk[i].src :
        LET line == walk[i].src[n].text
            path == PathOf(walk[i])
            of(desc) == SelectSeq(FindingsAt(path, n), LAMBDA f : f.description = desc)
        IN /\ Len(SecretFindingsAt(path, n)) <= 1
           /\ Cardinality(SecretStarts(line)) >= 2
                => Len(SecretFindingsAt(path, n)) = 1
           /\ ScannerFor(walk[i].fname) = "js_ts" =>
                /\ Len(FindingsAt(path, n)) <= 3
                /\ \A k \in DOMAIN JS_DANGEROUS_PATTERNS :
                     Len(of(JS_DANGEROUS_PATTERNS[k].description)) <= 1
                /\ Cardinality(StartsOf(Chars("dangerouslySetInnerHTML"), line)) >= 2
                     => of("dangerouslySetInnerHTML can lead to XSS")
                          = <<MarkupFinding(path, n)>>
                /\ Cardinality(StartsOf(Chars("javascript") \o <<":">>, line)) >= 2
                     => of("javascript: URL is an XSS vector") = <<UrlFinding(path, n)>>

\* line 2 of a .ts file holds each pattern twice and two secrets: three findings
C26_Witness ==
  /\ Completed
  /\ Len(walk) = 1
  /\ walk[1].fname = Chars("a.test.ts")
  /\ walk[1].src = <<LetLine, RepeatedJsLine>>
  /\ Cardinality(StartsOf(Chars("dangerouslySetInnerHTML"), RepeatedJsLine.text)) = 2
  /\ Cardinality(StartsOf(Chars("javascript") \o <<":">>, RepeatedJsLine.text)) = 2
  /\ Cardinality(SecretStarts(RepeatedJsLine.text)) = 2
  /\ Len(findings) = 3
  /\ \A k \in DOMAIN findings : findings[k].line = 2

\* fname is a stem followed by ext, the stem holding a character other than "."
HasSuffix(fname, ext) ==
  /\ Len(fname) > Len(ext)
  /\ SubSeq(fname, Len(fname) - Len(ext) + 1, Len(fname)) = ext
  /\ \E k \in 1..(Len(fname) - Len(ext)) : fname[k] # "."

\* the scanner file i of the walk was handed to, "none" when it was not handed
\* to any
RoutedAs(i) ==
  IF \E k \in DOMAIN routed : routed[k].filepath = PathOf(walk[i])
    THEN routed[CHOOSE k \in DOMAIN routed : routed[k].filepath = PathOf(walk[i])].scanner
    ELSE "none"

\* C27: the routing looks at the last suffix of the file name only, letter
\* case included: a file goes to the Python scanner exactly when its name is a
\* stem plus ".py", to the JS/TS scanner exactly when it is a stem plus ".js",
\* ".jsx", ".ts" or ".tsx"; U.PY, m.Js, noext and the dot-files .py and .ts are
\* not scanned, not read and have no finding; a.test.ts is scanned as JS/TS.
C27_FinalSuffixCaseSensitive ==
  \A i \in 1..pos :
    LET fname == walk[i].fname
    IN /\ RoutedAs(i) = "python" <=> HasSuffix(fname, <<".", "p", "y">>)
       /\ RoutedAs(i) = "js_ts" <=>
            \E ext \in {<<".", "j", "s">>, <<".", "j", "s", "x">>,
                         <<".", "t", "s">>, <<".", "t", "s", "x">>} :
              HasSuffix(fname, ext)
       /\ fname \in {<<"U", ".", "P", "Y">>, <<"m", ".", "J", "s">>,
                      <<"n", "o", "e", "x", "t">>, <<".", "p", "y">>,
                      <<".", "t", "s">>} =>
            /\ RoutedAs(i) = "none"
            /\ FindingsOf(PathOf(walk[i])) = <<>>
            /\ \A k \in DOMAIN reads : reads[k] # PathOf(walk[i])
       /\ fname = <<"a", ".", "t", "e", "s", "t", ".", "t", "s">> =>
            RoutedAs(i) = "js_ts"

\* m.Js with a markup line is passed over, a.test.ts with the same line is
\* scanned and has its findings
C27_Witness ==
  /\ Completed
  /\ Len(walk) = 2
  /\ walk[1].fname = <<"m", ".", "J", "s">>
  /\ walk[1].src = <<MarkupLine>>
  /\ walk[2].fname = <<"a", ".", "t", "e", "s", "t", ".", "t", "s">>
  /\ walk[2].src = <<MarkupLine>>
  /\ [k \in DOMAIN routed |-> routed[k].scanner] = <<"js_ts">>
  /\ Len(findings) = 2
  /\ \A k \in DOMAIN findings : findings[k].file = PathOf(walk[2])

\* the requests check_endpoint has made in the call under way
RequestsMade == SelectSeq(trace, LAMBDA e : e.kind = "request")

\* the status a single attempt stands for
StatusOfAttempt(o) ==
  IF o.kind = "URLError" THEN "unreachable"
  ELSE IF o.kind = "Exception" THEN "error"
  ELSE IF o.status = 200 THEN "healthy"
  ELSE IF o.status = 503 THEN "degraded"
  ELSE "unhealthy"

\* C28: check_endpoint makes at most `retries` attempts and counts them in the
\* attempts field; nothing follows an attempt that got HTTP 200; a sleep stands
\* between two attempts only (not after the last one, not after a success);
\* the status returned is that of the last attempt; with retries <= 0 no
\* request is made and the result is 'unknown' with attempts 0.
C28_BoundedRetries ==
  hpc \in {"loop", "returned", "crashed"} =>
    /\ Len(RequestsMade) <= (IF retries > 0 THEN retries ELSE 0)
    /\ result.attempts = Len(RequestsMade)
    /\ \A k \in DOMAIN RequestsMade : RequestsMade[k].attempt = k
    /\ \A k \in DOMAIN trace :
         (trace[k].kind = "request" /\ StatusOfAttempt(trace[k].outcome) = "healthy")
           => k = Len(trace) /\ hpc = "returned"
    /\ \A k \in DOMAIN trace :
         trace[k].kind = "sleep" =>
           /\ k > 1
           /\ trace[k - 1].kind = "request"
           /\ StatusOfAttempt(trace[k - 1].outcome) # "healthy"
           /\ trace[k].attempt < retries
           /\ k < Len(trace) => trace[k + 1].kind = "request"
           /\ k = Len(trace) => hpc = "loop"
    /\ hpc = "returned" =>
         IF RequestsMade = <<>>
           THEN result.status = "unknown" /\ result.attempts = 0 /\ retries <= 0
           ELSE result.status
                  = StatusOfAttempt(RequestsMade[Len(RequestsMade)].outcome)
    /\ (hpc = "returned" /\ retries <= 0) => result = NewResult(result.endpoint)

\* three attempts allowed: the first fails, a sleep, the second gets 200 and
\* the call returns with attempts 2
C28_Witness ==
  /\ hpc = "returned"
  /\ retries = 3
  /\ [k \in DOMAIN trace |-> trace[k].kind] = <<"request", "sleep", "request">>
  /\ trace[1].outcome.kind = "URLError"
  /\ result.attempts = 2
  /\ result.status = "healthy"

\* C29 as stated: a result that check_endpoint returns with status 'healthy'
\* has http_code 200 and error None, whatever the attempts before the
\* successful one were; so the log file has no error line for it.
C29_HealthyMeansNoError ==
  /\ (hpc = "returned" /\ result.status = "healthy") =>
       result.http_code = <<200>> /\ result.error = <<>>
  /\ \A k \in DOMAIN results :
       results[k].status = "healthy" =>
         /\ results[k].http_code = <<200>>
         /\ results[k].error = <<>>
         /\ \A n \in DOMAIN log_file :
              ~(log_file[n].kind = "error" /\ log_file[n].name = results[k].name)

\* C30: under either middleware class, every request on a non-excluded path
\* has incremented the in-progress gauge exactly once, and once its dispatch
\* has ended, by return or by exception, has decremented it exactly once and
\* incremented the request counter exactly once; the gauge of a method is the
\* number of its requests in flight, is never negative and is back at zero
\* when none is in flight; a request on an excluded path touches no metric.
InFlight(method) ==
  {r \in DOMAIN requests :
     requests[r].pc = "awaiting" /\ requests[r].request.method = method}

C30_GaugeBalanced ==
  /\ \A r \in DOMAIN requests :
       IF IsExcluded(template, requests[r].request.path)
         THEN requests[r].incs = 0 /\ requests[r].decs = 0 /\ requests[r].counted = 0
       ELSE /\ requests[r].incs = 1
            /\ requests[r].pc \in {"returned", "raised"} =>
                 requests[r].decs = 1 /\ requests[r].counted = 1
            /\ requests[r].pc = "awaiting" =>
                 requests[r].decs = 0 /\ requests[r].counted = 0
  /\ \A method \in {"GET", "POST"} :
       ValueOf(in_progress, <<method>>) = Cardinality(InFlight(method))
  /\ (\A r \in DOMAIN requests : IsExcluded(template, requests[r].request.path)) =>
       in_progress = <<>> /\ request_total = <<>> /\ server_errors = <<>>
         /\ observed = <<>>

=============================================================================
